---------------------------- MODULE Spec2Model ----------------------------
(***************************************************************************)
(* A model of the LOLCODE-markup compiler of src/compiler_project/src/     *)
(* main.rs: the character-by-character tokenizer, the token classifier     *)
(* (lookup), the recursive-descent parser with its scope stack, and the    *)
(* HTML generator (to_html), run in the order main runs them.              *)
(*                                                                         *)
(* Text is modelled by TLA+ strings; Ch(s, i) is the i-th character.  The  *)
(* parser's recursion is modelled by an explicit call stack: one frame per *)
(* active parse routine, holding the routine's name, the place it has      *)
(* reached (pc) and its local variables.  Every action is one routine; one *)
(* step of it runs the code from the place reached up to and including the *)
(* next call of next_token, the next call of a parse routine, or the       *)
(* routine's return.  std::process::exit(1) freezes the machine in phase   *)
(* "exited" with the reported error in the variable error.                 *)
(***************************************************************************)
EXTENDS Naturals, Sequences, FiniteSets, TLC

VARIABLES
    source,              \* main: lolcode_string, the text read from the file
    tokens,              \* lexer.tokens: (lexeme, line) pairs, reversed, popped from the end
    language_tokens,     \* compiler.language_tokens: the copy kept for to_html
    current_tok,         \* compiler.current_tok
    scope_stack,         \* compiler.scope_stack: frames, innermost last
    parser_current_line, \* compiler.parser.current_line, written by next_token
    self_current_line,   \* current_line of the analyzer that lolcode moved out of the
                         \* compiler and that runs the parse routines (their self)
    stack,               \* call stack of the parse routines
    phase,               \* how far main has come
    error,               \* what was reported before process::exit(1), or NoError
    declared_at,         \* history: per scope frame, name -> line of the identifier token
    lookup_result,       \* history: what the last lookup_variable call returned
    html_string,         \* to_html: html_string
    token_strings,       \* to_html: token_strings (reversed as language_tokens)
    html_scope_stack,    \* to_html: its local scope_stack, a flat list of bindings
    html_pc,             \* to_html: the loop being executed
    output_file,         \* the text written by main, or None
    runs,                \* how many times the program has been started on source
    calls,               \* which call of to_html of this run is the current one
    first_run,           \* history: how the first run ended, or None
    first_html           \* history: the text the first call of to_html returned, or None

parser_vars == <<tokens, current_tok, parser_current_line, stack, phase, error>>
scope_vars  == <<scope_stack, declared_at, lookup_result>>
html_vars   == <<html_string, token_strings, html_scope_stack, html_pc, output_file>>
repeat_vars == <<runs, calls, first_run, first_html>>
vars == <<source, language_tokens, self_current_line, parser_vars, scope_vars, html_vars,
          repeat_vars>>

---------------------------------------------------------------------------
(* Characters and strings.                                                 *)

Ch(s, i) == SubSeq(s, i, i)

LowerAlpha == "abcdefghijklmnopqrstuvwxyz"
UpperAlpha == "ABCDEFGHIJKLMNOPQRSTUVWXYZ"
DigitChars == "0123456789"

CharsOf(s) == {Ch(s, i) : i \in 1..Len(s)}

\* char::to_lowercase on the ASCII range
LowerChar(c) ==
    IF c \in CharsOf(UpperAlpha)
    THEN Ch(LowerAlpha, CHOOSE i \in 1..Len(UpperAlpha) : Ch(UpperAlpha, i) = c)
    ELSE c

RECURSIVE to_lowercase(_)
to_lowercase(s) ==
    IF s = "" THEN "" ELSE LowerChar(Ch(s, 1)) \o to_lowercase(SubSeq(s, 2, Len(s)))

starts_with(s, p) == Len(s) >= Len(p) /\ SubSeq(s, 1, Len(p)) = p

is_empty(s) == s = ""

\* char::is_whitespace on the ASCII range
is_whitespace(c) == c \in {" ", "\t", "\n", "\r", "\f"}

\* A regex of the form ^[class]+$ : non-empty and every character in the class
MatchesClass(s, class) == Len(s) >= 1 /\ \A i \in 1..Len(s) : Ch(s, i) \in class

None == <<>>
Some(v) == <<v>>

Last(q) == q[Len(q)]
Front(q) == SubSeq(q, 1, Len(q) - 1)

\* Vec::reverse
Reverse(q) == [i \in 1..Len(q) |-> q[Len(q) + 1 - i]]

---------------------------------------------------------------------------
(* LolcodeLexicalAnalyzer::new: the keyword tables and the four regexes.   *)

\* a document start table that also holds the bare word
head_start_or_bare == {"#hai", "hai"}

head_start        == {"#hai"}
head_end          == {"#kthxbye"}
comment_start     == {"#obtw"}
comment_end       == {"#tldr"}
make_start        == {"#maek"}
oic_end           == {"#oic"}
gimmeh_start      == {"#gimmeh"}
mkay_end          == {"#mkay"}
variable_start    == {"#i", "haz"}
variable_mid      == {"#it", "iz"}
variable_end      == {"#lemme", "see"}
head_element      == {"head"}
title_element     == {"title"}
paragraph_element == {"paragraf"}
bold_element      == {"bold"}
italics_element   == {"italics"}
list_element      == {"list"}
item_element      == {"item"}
newline_element   == {"newline"}
soundz_element    == {"soundz"}
vidz_element      == {"vidz"}

LetterClass  == CharsOf(LowerAlpha) \cup CharsOf(UpperAlpha)
TextClass    == LetterClass \cup CharsOf(DigitChars) \cup CharsOf(",.':?!_/ ")
AddressClass == LetterClass \cup CharsOf(DigitChars) \cup CharsOf(",.':?!_/%")

var_def_is_match(s) == MatchesClass(s, LetterClass)
var_val_is_match(s) == MatchesClass(s, TextClass)
text_is_match(s)    == MatchesClass(s, TextClass)
address_is_match(s) == MatchesClass(s, AddressClass)

\* LexicalAnalyzer::lookup
lookup(s) ==
    IF starts_with(s, "#")
    THEN to_lowercase(s) \in
            head_start \cup head_end \cup comment_start \cup comment_end
            \cup make_start \cup oic_end \cup gimmeh_start \cup mkay_end
            \cup variable_start \cup variable_mid \cup variable_end
    ELSE \/ to_lowercase(s) \in
               head_element \cup title_element \cup paragraph_element
               \cup bold_element \cup italics_element \cup list_element
               \cup item_element \cup newline_element \cup soundz_element
               \cup vidz_element
         \/ text_is_match(s)
         \/ address_is_match(s)
         \/ var_def_is_match(s)
         \/ var_val_is_match(s)

\* The helper predicates of LolcodeSyntaxAnalyzer
is_document_end(s)       == to_lowercase(s) \in head_end
is_make_start(s)         == to_lowercase(s) \in make_start
is_oic_end(s)            == to_lowercase(s) \in oic_end
is_gimmeh_start(s)       == to_lowercase(s) \in gimmeh_start
is_mkay_end(s)           == to_lowercase(s) \in mkay_end
is_comment_start(s)      == to_lowercase(s) \in comment_start
is_comment_end(s)        == to_lowercase(s) \in comment_end
is_variable_start(s)     == to_lowercase(s) \in variable_start
is_variable_mid(s)       == to_lowercase(s) \in variable_mid
is_variable_end(s)       == to_lowercase(s) \in variable_end
is_head_element(s)       == to_lowercase(s) \in head_element
is_title_element(s)      == to_lowercase(s) \in title_element
is_paragraph_element(s)  == to_lowercase(s) \in paragraph_element
is_bold_element(s)       == to_lowercase(s) \in bold_element
is_italics_element(s)    == to_lowercase(s) \in italics_element
is_list_element(s)       == to_lowercase(s) \in list_element
is_item_element(s)       == to_lowercase(s) \in item_element
is_newline_element(s)    == to_lowercase(s) \in newline_element
is_soundz_element(s)     == to_lowercase(s) \in soundz_element
is_vidz_element(s)       == to_lowercase(s) \in vidz_element
is_text(s)               == text_is_match(s)
is_address(s)            == address_is_match(s)
is_variable_identifier(s) == var_def_is_match(s)

---------------------------------------------------------------------------
(* LolcodeLexicalAnalyzer::tokenize, with get_char and add_char.           *)

\* The character U+0000, which get_char also returns as its end mark.  The texts of
\* this model write it as a tilde.
Nul == "~"

\* get_char: the character at position (0-based), Nul past the end
get_char(input, position) ==
    IF position >= Len(input) THEN Nul ELSE Ch(input, position + 1)

\* add_char: current_build with input[position - 1] pushed
add_char(input, position, current_build) == current_build \o Ch(input, position)

\* close the token being built, if any: tokens.push((take(current_build), line_number))
PushBuild(toks, current_build, line_number) ==
    IF current_build # "" THEN Append(toks, <<current_build, line_number>>) ELSE toks

\* the state of the loop of tokenize: its position and the fields it writes
LexState(position, current_build, toks, line_number) ==
    [position |-> position, current_build |-> current_build, tokens |-> toks,
     line_number |-> line_number, done |-> FALSE]

\* one iteration of the loop of tokenize, for the character get_char returns
TokenizeStep(input, st) ==
    LET c == get_char(input, st.position) IN
    IF st.done THEN st
    ELSE IF c = Nul
    THEN \* if c == '\0' { break; }
         [st EXCEPT !.position = IF st.position >= Len(input) THEN @ ELSE @ + 1,
                    !.done = TRUE]
    ELSE IF c = "\n"
    THEN LexState(st.position + 1, "",
                  PushBuild(st.tokens, st.current_build, st.line_number),
                  st.line_number + 1)
    ELSE IF is_whitespace(c)
         THEN LexState(st.position + 1, "",
                       PushBuild(st.tokens, st.current_build, st.line_number),
                       st.line_number)
    ELSE LexState(st.position + 1, add_char(input, st.position + 1, st.current_build),
                  st.tokens, st.line_number)

\* n iterations of the loop, in order: the first half is run to its end state,
\* then the second half from that state
RECURSIVE TokenizeLoop(_, _, _)
TokenizeLoop(input, st, n) ==
    IF n = 0 THEN st
    ELSE IF n = 1 THEN TokenizeStep(input, st)
    ELSE CHOOSE r \in {TokenizeLoop(input, half, n - (n \div 2)) :
                          half \in {TokenizeLoop(input, st, n \div 2)}} : TRUE

\* the loop runs until get_char returns Nul, then the open token is flushed
TokenizeAll(input) ==
    LET st == TokenizeLoop(input, LexState(0, "", <<>>, 1), Len(input))
    IN  PushBuild(st.tokens, st.current_build, st.line_number)

\* tokenize: the tokens in source order, then reversed so that pop yields the first
tokenize(input) == Reverse(TokenizeAll(input))

---------------------------------------------------------------------------
(* Errors: what eprintln! reports before std::process::exit(1).            *)

NoError == [kind |-> "none", line |-> 0, msg |-> "", tok |-> "", cited |-> 0]

\* "User error: The provided sentence is empty."
UserError == [kind |-> "user", line |-> 0, msg |-> "The provided sentence is empty",
              tok |-> "", cited |-> 0]

\* a lexical error that always reports the first line
LexicalError_first_line(line, candidate) ==
    [kind |-> "lexical", line |-> 1, msg |-> "is not a recognized token",
     tok |-> candidate, cited |-> 0]

\* "Lexical error at line {}: '{}' is not a recognized token."
LexicalError(line, candidate) ==
    [kind |-> "lexical", line |-> line, msg |-> "is not a recognized token",
     tok |-> candidate, cited |-> 0]

\* "Syntax error at line {}: <msg>, found '{}'."
SyntaxError(line, msg, found) ==
    [kind |-> "syntax", line |-> line, msg |-> msg, tok |-> found, cited |-> 0]

\* "Semantic error at line {}: Variable '{}' is already defined at line {} ..."
RedeclaredError(line, name, existing_line) ==
    [kind |-> "semantic", line |-> line, msg |-> "is already defined",
     tok |-> name, cited |-> existing_line]

\* "Semantic error at line {}: Variable '{}' is used before being defined."
UndefinedError(line, name) ==
    [kind |-> "semantic", line |-> line, msg |-> "is used before being defined",
     tok |-> name, cited |-> 0]

\* unwrap() on None inside to_html: the thread panics
PanicError == [kind |-> "panic", line |-> 0, msg |-> "called Option::unwrap() on a None value",
               tok |-> "", cited |-> 0]

\* the recursion of the parse routines exhausts the call stack: the process aborts
OverflowError == [kind |-> "overflow", line |-> 0, msg |-> "stack overflow",
                  tok |-> "", cited |-> 0]

---------------------------------------------------------------------------
(* The scope stack (Task 3 of the source).                                 *)

EmptyScope == [n \in {} |-> None]

VariableInfo(name, value, line) == [name |-> name, value |-> value, line_defined |-> line]

contains_key(scope, name) == name \in DOMAIN scope

insert(scope, name, info) ==
    [n \in DOMAIN scope \cup {name} |-> IF n = name THEN info ELSE scope[n]]

\* LolcodeCompiler::push_scope
push_scope(ss) == Append(ss, EmptyScope)

\* pop_scope without its guard: the global frame can be removed
pop_scope_unguarded(ss) == Front(ss)

\* LolcodeCompiler::pop_scope
pop_scope(ss) == IF Len(ss) > 1 THEN Front(ss) ELSE ss

\* a lookup that searches the frames from the outermost to the innermost
lookup_variable_outermost_first(ss, name) ==
    LET binds == {i \in 1..Len(ss) : contains_key(ss[i], name)} IN
    IF binds = {} THEN None
    ELSE Some(ss[CHOOSE i \in binds : \A j \in binds : i <= j][name])

\* LolcodeCompiler::lookup_variable: innermost frame first; None when no frame binds name
RECURSIVE lookup_from(_, _, _)
lookup_from(ss, i, name) ==
    IF i = 0 THEN None
    ELSE IF contains_key(ss[i], name) THEN Some(ss[i][name])
    ELSE lookup_from(ss, i - 1, name)

lookup_variable(ss, name) == lookup_from(ss, Len(ss), name)

\* every frame merged into one, an inner binding hiding an outer one
current_scope_merged(ss) ==
    [n \in UNION {DOMAIN ss[i] : i \in 1..Len(ss)} |->
        LET k == CHOOSE i \in 1..Len(ss) :
                     /\ n \in DOMAIN ss[i]
                     /\ \A j \in (i+1)..Len(ss) : n \notin DOMAIN ss[j]
        IN  ss[k][n]]

\* self.scope_stack.last_mut(): the frame declare_variable examines
current_scope(ss) == Last(ss)

\* LolcodeCompiler::declare_variable, its two outcomes
declare_collides(ss, name) == Len(ss) >= 1 /\ contains_key(current_scope(ss), name)

declare_insert(ss, name, value, line) ==
    IF Len(ss) >= 1
    THEN [ss EXCEPT ![Len(ss)] = insert(ss[Len(ss)], name, VariableInfo(name, value, line))]
    ELSE ss

---------------------------------------------------------------------------
(* The call stack of the parser and the pieces every routine is made of.   *)

\* The deepest recursion the process's stack can hold, in frames
MaxStack == 16

Frame(f, pc) == [fn |-> f, pc |-> pc, kw |-> "", name |-> "", val |-> None, at |-> 0]

Top == stack[Len(stack)]
Running(f) == phase = "parsing" /\ stack # <<>> /\ Top.fn = f
At(pc) == Top.pc = pc

\* the stack after the running routine moves to pc
Goto(pc) == [stack EXCEPT ![Len(stack)].pc = pc]
\* the stack after the running routine calls f and will continue at pc
Call(pc, f, fpc) == Append(Goto(pc), Frame(f, fpc))
\* the stack after the running routine returns
Return == Front(stack)

\* a report after which the routines return to main as if the parse had succeeded
Exit_returning(err) ==
    /\ phase' = "parsed"
    /\ error' = err
    /\ UNCHANGED <<tokens, current_tok, parser_current_line, stack>>

\* process::exit(1) after reporting err
Exit(err) ==
    /\ phase' = "exited"
    /\ error' = err
    /\ UNCHANGED <<tokens, current_tok, parser_current_line, stack>>

\* a step that consumes no token and leaves the stack as new_stack; a call that
\* would exceed the process's stack aborts instead
Jump(new_stack) ==
    IF Len(new_stack) > MaxStack
    THEN /\ phase' = "aborted"
         /\ error' = OverflowError
         /\ UNCHANGED <<tokens, current_tok, parser_current_line, stack>>
    ELSE /\ stack' = new_stack
         /\ UNCHANGED <<tokens, current_tok, parser_current_line, phase, error>>

\* Compiler::next_token succeeds: no token is left, or the popped lexeme passes lookup
NextTokenOK == tokens = <<>> \/ lookup(Last(tokens)[1])

\* compiler.current_tok = compiler.next_token(), after which the stack is new_stack
next_token(new_stack) ==
    IF tokens = <<>>
    THEN /\ current_tok' = ""
         /\ IF Len(new_stack) > MaxStack
            THEN phase' = "aborted" /\ error' = OverflowError /\ stack' = stack
            ELSE stack' = new_stack /\ UNCHANGED <<phase, error>>
         /\ UNCHANGED <<tokens, parser_current_line>>
    ELSE LET candidate == Last(tokens)[1]
             line      == Last(tokens)[2]
         IN  /\ tokens' = Front(tokens)
             /\ parser_current_line' = line
             /\ IF lookup(candidate)
                THEN /\ current_tok' = candidate
                     /\ IF Len(new_stack) > MaxStack
                        THEN phase' = "aborted" /\ error' = OverflowError /\ stack' = stack
                        ELSE stack' = new_stack /\ UNCHANGED <<phase, error>>
                ELSE /\ phase' = "exited"
                     /\ error' = LexicalError(line, candidate)
                     /\ UNCHANGED <<current_tok, stack>>

\* "if !is_x(current_tok) { syntax error; exit } current_tok = next_token()"
Expect(ok, msg, new_stack) ==
    IF ok THEN next_token(new_stack)
    ELSE Exit(SyntaxError(self_current_line, msg, current_tok))

\* what a parse routine leaves alone unless it says otherwise
NoScopeChange ==
    UNCHANGED <<source, language_tokens, self_current_line, scope_vars, html_vars, repeat_vars>>
NoOtherChange == UNCHANGED <<source, language_tokens, self_current_line, html_vars, repeat_vars>>

\* the source line of the token held in current_tok: the token popped last
CurrentLine == language_tokens[Len(tokens) + 1][2]

---------------------------------------------------------------------------
(* Compiler::compile (with LolcodeCompiler::start), Compiler::parse and    *)
(* LolcodeCompiler::lolcode.                                               *)

compile ==
    /\ phase = "main"
    /\ LET toks == tokenize(source) IN
       /\ language_tokens' = toks
       /\ IF toks = <<>>
          THEN \* start: next_token finds nothing, the current token is empty
               /\ tokens' = toks
               /\ current_tok' = ""
               /\ parser_current_line' = parser_current_line
               /\ phase' = "exited"
               /\ error' = UserError
          ELSE /\ tokens' = Front(toks)
               /\ parser_current_line' = Last(toks)[2]
               /\ IF lookup(Last(toks)[1])
                  THEN current_tok' = Last(toks)[1] /\ phase' = "compiled" /\ error' = error
                  ELSE /\ current_tok' = current_tok
                       /\ phase' = "exited"
                       /\ error' = LexicalError(Last(toks)[2], Last(toks)[1])
    /\ UNCHANGED <<source, self_current_line, stack, scope_vars, html_vars, repeat_vars>>

\* parse without the check of what is left after the document
parse_ignoring_tail ==
    \/ /\ phase = "compiled"
       /\ phase' = "parsing"
       /\ stack' = <<Frame("parse", "tail"), Frame("lolcode", "hai")>>
       /\ UNCHANGED <<tokens, current_tok, parser_current_line, error>>
       /\ NoScopeChange
    \/ /\ Running("parse") /\ At("tail")
       /\ phase' = "parsed"
       /\ stack' = Return
       /\ UNCHANGED <<tokens, current_tok, parser_current_line, error>>
       /\ NoScopeChange

parse ==
    \/ /\ phase = "compiled"
       /\ phase' = "parsing"
       /\ stack' = <<Frame("parse", "tail"), Frame("lolcode", "hai")>>
       /\ UNCHANGED <<tokens, current_tok, parser_current_line, error>>
       /\ NoScopeChange
    \/ /\ Running("parse") /\ At("tail")
       /\ IF tokens # <<>>
          THEN Exit(SyntaxError(parser_current_line,
                                "Additional tokens found after the document", ""))
          ELSE /\ phase' = "parsed"
               /\ stack' = Return
               /\ UNCHANGED <<tokens, current_tok, parser_current_line, error>>
       /\ NoScopeChange

lolcode ==
    /\ Running("lolcode")
    /\ \/ /\ At("hai")
          /\ IF to_lowercase(current_tok) \in head_start
             THEN next_token(Goto("replace"))
             ELSE Exit(SyntaxError(parser_current_line,
                                   "Expected document start '#hai'", current_tok))
          /\ NoScopeChange
       \/ /\ At("replace")
          \* mem::replace: the analyzer leaves the compiler, a new one (line 1) takes its place
          /\ self_current_line' = parser_current_line
          /\ parser_current_line' = 1
          /\ stack' = Call("restore", "parse_lolcode", "comments")
          /\ UNCHANGED <<tokens, current_tok, phase, error>>
          /\ UNCHANGED <<source, language_tokens, scope_vars, html_vars, repeat_vars>>
       \/ /\ At("restore")
          \* self.parser = parser, then the check of the document end
          /\ IF to_lowercase(current_tok) \in head_end
             THEN /\ parser_current_line' = self_current_line
                  /\ stack' = Return
                  /\ UNCHANGED <<tokens, current_tok, phase, error>>
             ELSE /\ parser_current_line' = self_current_line
                  /\ phase' = "exited"
                  /\ error' = SyntaxError(self_current_line,
                                          "Expected document end '#kthxbye'", current_tok)
                  /\ UNCHANGED <<tokens, current_tok, stack>>
          /\ NoScopeChange

---------------------------------------------------------------------------
(* SyntaxAnalyzer for LolcodeSyntaxAnalyzer: the parse routines.           *)

parse_lolcode ==
    /\ Running("parse_lolcode")
    /\ IF At("comments") THEN Jump(Call("decls", "parse_comments", "loop"))
       ELSE IF At("decls") THEN
            IF is_variable_start(current_tok)
            THEN Jump(Call("decls", "parse_variable_define", "start"))
            ELSE Jump(Call("body", "parse_head", "maek"))
       ELSE IF At("body") THEN Jump(Call("ret", "parse_body", "start"))
       ELSE Jump(Return)
    /\ NoScopeChange

parse_comments ==
    /\ Running("parse_comments")
    /\ IF is_comment_start(current_tok)
       THEN Jump(Call("loop", "parse_comment", "obtw"))
       ELSE Jump(Return)
    /\ NoScopeChange

parse_head ==
    /\ Running("parse_head")
    /\ IF At("maek") THEN Expect(is_make_start(current_tok), "Expected '#maek'", Goto("head"))
       ELSE IF At("head") THEN
            Expect(is_head_element(current_tok), "Expected 'head'", Goto("title"))
       ELSE IF At("title") THEN Jump(Call("oic", "parse_title", "gimmeh"))
       ELSE Expect(is_oic_end(current_tok), "Expected '#oic'", Return)
    /\ NoScopeChange

parse_title ==
    /\ Running("parse_title")
    /\ IF At("gimmeh") THEN
            Expect(is_gimmeh_start(current_tok), "Expected '#gimmeh'", Goto("title"))
       ELSE IF At("title") THEN
            Expect(is_title_element(current_tok), "Expected 'title'", Goto("loop"))
       ELSE IF ~is_mkay_end(current_tok) THEN
            IF is_empty(current_tok)
            THEN Exit(SyntaxError(self_current_line, "Unexpected end of input in title", ""))
            ELSE Jump(Call("loop", "parse_text", "loop"))
       ELSE next_token(Return)
    /\ NoScopeChange

parse_comment ==
    /\ Running("parse_comment")
    /\ IF At("obtw") THEN
            Expect(is_comment_start(current_tok), "Expected comment start '#obtw'",
                   Goto("text"))
       ELSE IF At("text") THEN Jump(Call("tldr", "parse_text", "loop"))
       ELSE Expect(is_comment_end(current_tok), "Expected comment end '#tldr'", Return)
    /\ NoScopeChange

parse_body ==
    /\ Running("parse_body")
    /\ IF At("start") THEN
            IF ~is_document_end(current_tok)
            THEN Jump(Call("rec", "parse_inner_body", "start"))
            ELSE Jump(Return)
       ELSE IF At("rec") THEN Jump(Call("ret", "parse_body", "start"))
       ELSE Jump(Return)
    /\ NoScopeChange

parse_inner_body ==
    /\ Running("parse_inner_body")
    /\ IF At("start") THEN
            IF is_variable_start(current_tok) THEN Jump(Return)
            ELSE IF is_make_start(current_tok) THEN next_token(Goto("block"))
            ELSE IF is_gimmeh_start(current_tok) THEN next_token(Goto("elem"))
            ELSE IF is_variable_end(current_tok)
                 THEN Jump(Call("ret", "parse_variable_use", "start"))
            ELSE IF is_comment_start(current_tok)
                 THEN Jump(Call("ret", "parse_comment", "obtw"))
            ELSE IF ~is_empty(current_tok) THEN Jump(Call("ret", "parse_text", "loop"))
            ELSE Jump(Return)
       ELSE IF At("block") THEN
            IF is_paragraph_element(current_tok)
            THEN Jump(Call("ret", "parse_paragraph", "start"))
            ELSE IF is_list_element(current_tok) THEN Jump(Call("ret", "parse_list", "maek"))
            ELSE Exit(SyntaxError(self_current_line, "Expected 'paragraf' or 'list'",
                                  current_tok))
       ELSE IF At("elem") THEN
            IF is_bold_element(current_tok)
            THEN next_token(Call("ret", "parse_bold", "bold"))
            ELSE IF is_italics_element(current_tok)
                 THEN next_token(Call("ret", "parse_italics", "italics"))
            ELSE IF is_soundz_element(current_tok)
                 THEN Jump(Call("ret", "parse_audio", "gimmeh"))
            ELSE IF is_vidz_element(current_tok) THEN Jump(Call("ret", "parse_video", "vidz"))
            ELSE IF is_newline_element(current_tok)
                 THEN Jump(Call("ret", "parse_newline", "newline"))
            ELSE Exit(SyntaxError(self_current_line,
                        "Expected 'bold', 'italics', 'soundz', 'vidz' or 'newline'",
                        current_tok))
       ELSE Jump(Return)
    /\ NoScopeChange

parse_paragraph ==
    /\ Running("parse_paragraph")
    /\ IF At("start") THEN
            \* push_scope comes first, then the check of 'paragraf'
            /\ scope_stack' = push_scope(scope_stack)
            /\ declared_at' = push_scope(declared_at)
            /\ IF ~is_paragraph_element(current_tok)
               THEN Exit(SyntaxError(self_current_line, "Expected 'paragraf'", current_tok))
               ELSE Jump(Goto("paragraf"))
       ELSE IF At("paragraf") THEN
            /\ next_token(Goto("loop"))
            /\ UNCHANGED <<scope_stack, declared_at>>
       ELSE IF ~is_oic_end(current_tok) THEN
            /\ IF is_empty(current_tok)
               THEN Exit(SyntaxError(self_current_line,
                                     "Unexpected end of input in paragraph", ""))
               ELSE IF is_variable_start(current_tok)
                    THEN Jump(Call("loop", "parse_variable_define", "start"))
               ELSE Jump(Call("loop", "parse_inner_paragraph", "start"))
            /\ UNCHANGED <<scope_stack, declared_at>>
       ELSE \* consume #oic, then pop_scope
            /\ next_token(Return)
            /\ scope_stack' = IF NextTokenOK THEN pop_scope(scope_stack) ELSE scope_stack
            /\ declared_at' = IF NextTokenOK THEN pop_scope(declared_at) ELSE declared_at
    /\ UNCHANGED lookup_result
    /\ NoOtherChange

parse_inner_paragraph ==
    /\ Running("parse_inner_paragraph")
    /\ IF At("start") THEN Jump(Call("skip", "parse_inner_text", "start"))
       ELSE IF ~is_oic_end(current_tok) THEN next_token(Return)
       ELSE Jump(Return)
    /\ NoScopeChange

parse_list ==
    /\ Running("parse_list")
    /\ IF At("maek") THEN Expect(is_make_start(current_tok), "Expected '#maek'", Goto("list"))
       ELSE IF At("list") THEN
            Expect(is_list_element(current_tok), "Expected 'list'", Goto("items"))
       ELSE IF At("items") THEN Jump(Call("oic", "parse_list_items", "start"))
       ELSE Expect(~(~is_oic_end(current_tok) /\ is_empty(current_tok)), "Expected 'oic'",
                   Return)
    /\ NoScopeChange

parse_list_items ==
    /\ Running("parse_list_items")
    /\ IF At("start") THEN
            IF ~is_empty(current_tok)
            THEN Jump(Call("rec", "parse_item", "gimmeh"))
            ELSE Jump(Return)
       ELSE IF At("rec") THEN Jump(Call("ret", "parse_list_items", "start"))
       ELSE Jump(Return)
    /\ NoScopeChange

parse_inner_text ==
    /\ Running("parse_inner_text")
    /\ IF At("start") THEN
            IF is_variable_end(current_tok)
            THEN Jump(Call("ret", "parse_variable_use", "start"))
            ELSE IF is_gimmeh_start(current_tok) THEN next_token(Goto("elem"))
            ELSE IF is_make_start(current_tok)
                 THEN next_token(Call("ret", "parse_list", "maek"))
            ELSE IF ~starts_with(current_tok, "#")
                 THEN Jump(Call("ret", "parse_text", "loop"))
            ELSE Jump(Return)
       ELSE IF At("elem") THEN
            IF is_bold_element(current_tok) THEN Jump(Call("ret", "parse_bold", "bold"))
            ELSE IF is_italics_element(current_tok)
                 THEN Jump(Call("ret", "parse_italics", "italics"))
            ELSE IF is_newline_element(current_tok)
                 THEN Jump(Call("ret", "parse_newline", "newline"))
            ELSE IF is_soundz_element(current_tok)
                 THEN Jump(Call("ret", "parse_audio", "gimmeh"))
            ELSE IF is_vidz_element(current_tok) THEN Jump(Call("ret", "parse_video", "vidz"))
            ELSE Exit(SyntaxError(self_current_line,
                        "Expected 'bold', 'italics', 'newline', 'soundz', or 'vidz'",
                        current_tok))
       ELSE Jump(Return)
    /\ NoScopeChange

parse_text ==
    /\ Running("parse_text")
    /\ IF ~starts_with(current_tok, "#") /\ ~is_mkay_end(current_tok)
       THEN IF is_empty(current_tok)
            THEN Exit(SyntaxError(self_current_line, "Unexpected end of input in bold", ""))
            ELSE next_token(stack)
       ELSE Jump(Return)
    /\ NoScopeChange

parse_item ==
    /\ Running("parse_item")
    /\ IF At("gimmeh") THEN
            Expect(is_gimmeh_start(current_tok), "expected #gimmeh", Goto("item"))
       ELSE IF At("item") THEN
            Expect(is_item_element(current_tok), "expected #gimmeh", Goto("inner"))
       ELSE IF At("inner") THEN Jump(Call("mkay", "parse_inner_list", "start"))
       ELSE IF ~is_mkay_end(current_tok)
            THEN Exit(SyntaxError(self_current_line, "expected #mkay", current_tok))
       ELSE Jump(Return)
    /\ NoScopeChange

parse_inner_list ==
    /\ Running("parse_inner_list")
    /\ IF At("start") THEN
            IF ~is_empty(current_tok)
            THEN IF is_gimmeh_start(current_tok)
                 THEN next_token(Goto("elem"))
                 ELSE Jump(Goto("text"))
            ELSE Jump(Return)
       ELSE IF At("elem") THEN
            IF is_bold_element(current_tok) THEN Jump(Call("text", "parse_bold", "bold"))
            ELSE IF is_italics_element(current_tok)
                 THEN Jump(Call("text", "parse_italics", "italics"))
            ELSE Jump(Goto("text"))
       ELSE IF At("text") THEN Jump(Call("use", "parse_text", "loop"))
       ELSE IF At("use") THEN Jump(Call("ret", "parse_variable_use", "start"))
       ELSE Jump(Return)
    /\ NoScopeChange

parse_audio ==
    /\ Running("parse_audio")
    /\ IF At("gimmeh") THEN
            Expect(is_gimmeh_start(current_tok), "Expected '#gimmeh'", Goto("soundz"))
       ELSE IF At("soundz") THEN
            Expect(is_soundz_element(current_tok), "Expected 'soundz'", Goto("address"))
       ELSE IF At("address") THEN
            Expect(is_address(current_tok), "Expected address for audio", Goto("mkay"))
       ELSE Expect(is_mkay_end(current_tok), "Expected '#mkay' after audio address", Return)
    /\ NoScopeChange

parse_video ==
    /\ Running("parse_video")
    /\ IF At("vidz") THEN
            Expect(is_vidz_element(current_tok), "Expected 'vidz'", Goto("address"))
       ELSE IF At("address") THEN
            Expect(is_address(current_tok), "Expected address for audio", Goto("mkay"))
       ELSE Expect(is_mkay_end(current_tok), "Expected '#mkay' after audio address", Return)
    /\ NoScopeChange

parse_newline ==
    /\ Running("parse_newline")
    /\ IF ~is_newline_element(current_tok)
       THEN Exit(SyntaxError(self_current_line, "Expected 'newline'", current_tok))
       ELSE Jump(Return)
    /\ NoScopeChange

parse_bold ==
    /\ Running("parse_bold")
    /\ IF At("bold") THEN
            Expect(is_bold_element(current_tok), "expected bold", Goto("content"))
       ELSE IF At("content") THEN
            IF is_variable_end(current_tok)
            THEN Jump(Call("mkay", "parse_variable_use", "start"))
            ELSE Jump(Call("mkay", "parse_text", "loop"))
       ELSE \* "Consume #MKAY": whatever the current token is, it is replaced
            next_token(Return)
    /\ NoScopeChange

parse_italics ==
    /\ Running("parse_italics")
    /\ IF At("italics") THEN
            Expect(is_italics_element(current_tok), "expected italics", Goto("content"))
       ELSE IF At("content") THEN
            IF is_variable_end(current_tok)
            THEN Jump(Call("mkay", "parse_variable_use", "start"))
            ELSE Jump(Call("mkay", "parse_text", "loop"))
       ELSE next_token(Return)
    /\ NoScopeChange

\* the running frame with its place and local variables replaced
Local(pc, kw, name, val, at) ==
    [stack EXCEPT ![Len(stack)] =
        [fn |-> Top.fn, pc |-> pc, kw |-> kw, name |-> name, val |-> val, at |-> at]]

parse_variable_define ==
    /\ Running("parse_variable_define")
    /\ IF At("start") THEN
            \* var_keyword is read from the current token, which is not advanced
            /\ LET var_keyword == to_lowercase(current_tok) IN
               IF var_keyword = "#i"
               THEN IF to_lowercase(current_tok) # "haz"
                    THEN Exit(SyntaxError(self_current_line, "Expected 'haz' after '#i'",
                                          current_tok))
                    ELSE next_token(Local("ident", var_keyword, "", None, 0))
               ELSE Jump(Local("ident", var_keyword, "", None, 0))
            /\ UNCHANGED <<scope_stack, declared_at>>
       ELSE IF At("ident") THEN
            /\ IF ~is_variable_identifier(current_tok)
               THEN Exit(SyntaxError(self_current_line, "Expected variable identifier",
                                     current_tok))
               ELSE next_token(Local("mid", Top.kw, current_tok, None, CurrentLine))
            /\ UNCHANGED <<scope_stack, declared_at>>
       ELSE IF At("mid") THEN
            /\ IF is_variable_mid(current_tok)
               THEN next_token(Local("iz", to_lowercase(current_tok), Top.name, None, Top.at))
               ELSE Jump(Goto("declare"))
            /\ UNCHANGED <<scope_stack, declared_at>>
       ELSE IF At("iz") THEN
            /\ IF Top.kw = "#it"
               THEN Expect(to_lowercase(current_tok) = "iz", "Expected 'iz' after '#it'",
                           Goto("value"))
               ELSE Jump(Goto("value"))
            /\ UNCHANGED <<scope_stack, declared_at>>
       ELSE IF At("value") THEN
            /\ IF ~is_text(current_tok) /\ ~is_address(current_tok)
               THEN Exit(SyntaxError(self_current_line, "Expected value after 'iz'",
                                     current_tok))
               ELSE next_token(Local("mkay", Top.kw, Top.name, Some(current_tok), Top.at))
            /\ UNCHANGED <<scope_stack, declared_at>>
       ELSE IF At("mkay") THEN
            /\ Expect(is_mkay_end(current_tok), "Expected '#mkay' after variable value",
                      Goto("declare"))
            /\ UNCHANGED <<scope_stack, declared_at>>
       ELSE \* compiler.declare_variable(var_name, var_value, self.current_line)
            IF declare_collides(scope_stack, Top.name)
            THEN /\ Exit(RedeclaredError(self_current_line, Top.name,
                                         current_scope(scope_stack)[Top.name].line_defined))
                 /\ UNCHANGED <<scope_stack, declared_at>>
            ELSE /\ scope_stack' = declare_insert(scope_stack, Top.name, Top.val,
                                                  self_current_line)
                 /\ declared_at' = [declared_at EXCEPT ![Len(declared_at)] =
                                        insert(@, Top.name, Top.at)]
                 /\ Jump(Return)
    /\ UNCHANGED lookup_result
    /\ NoOtherChange

parse_variable_use ==
    /\ Running("parse_variable_use")
    /\ IF At("start") THEN
            /\ IF ~is_variable_end(current_tok)
               THEN Exit(SyntaxError(self_current_line, "Expected '#lemme' or 'see'",
                                     current_tok))
               ELSE next_token(Local("see", to_lowercase(current_tok), "", None, 0))
            /\ UNCHANGED lookup_result
       ELSE IF At("see") THEN
            /\ IF Top.kw = "#lemme"
               THEN Expect(to_lowercase(current_tok) = "see", "Expected 'see' after '#lemme'",
                           Goto("ident"))
               ELSE Jump(Goto("ident"))
            /\ UNCHANGED lookup_result
       ELSE IF At("ident") THEN
            IF ~is_variable_identifier(current_tok)
            THEN /\ Exit(SyntaxError(self_current_line, "Expected variable identifier",
                                     current_tok))
                 /\ UNCHANGED lookup_result
            ELSE /\ lookup_result' = [name |-> current_tok,
                                      found |-> lookup_variable(scope_stack, current_tok)]
                 /\ IF lookup_variable(scope_stack, current_tok) = None
                    THEN Exit(UndefinedError(self_current_line, current_tok))
                    ELSE next_token(Local("mkay", Top.kw, current_tok, None, 0))
       ELSE /\ Expect(is_mkay_end(current_tok), "Expected '#mkay' after variable usage",
                      Return)
            /\ UNCHANGED lookup_result
    /\ UNCHANGED <<scope_stack, declared_at>>
    /\ NoOtherChange

---------------------------------------------------------------------------
(* LolcodeCompiler::to_html (Task 4 of the source).  token_strings is      *)
(* popped from its end; every loop of the function is one action and one   *)
(* step is one iteration of that loop.                                     *)

\* the k-th token that pop would return from q, and q after k pops
Nth(q, k) == q[Len(q) - k + 1]
Drop(q, k) == SubSeq(q, 1, Len(q) - k)

\* tokens.iter().map(|(token, _line)| token.clone()).collect()
Lexemes(toks) == [i \in 1..Len(toks) |-> toks[i][1]]

\* The nested pops after a '#i' token: how many tokens they take from q, and
\* the binding pushed (None when the sequence is not complete)
DeclPops(q) ==
    IF Len(q) < 1 THEN 0
    ELSE IF to_lowercase(Nth(q, 1)) # "haz" THEN 1
    ELSE IF Len(q) < 2 THEN 1
    ELSE IF Len(q) < 3 THEN 2
    ELSE IF to_lowercase(Nth(q, 3)) # "#it" THEN 3
    ELSE IF Len(q) < 4 THEN 3
    ELSE IF to_lowercase(Nth(q, 4)) # "iz" THEN 4
    ELSE IF Len(q) < 5 THEN 4
    ELSE IF Len(q) < 6 THEN 5
    ELSE 6

DeclBinding(q) ==
    IF DeclPops(q) = 6 /\ to_lowercase(Nth(q, 6)) = "#mkay"
    THEN Some(VariableInfo(Nth(q, 2), Some(Nth(q, 5)), 0))
    ELSE None

\* the generator's binding list after the pops that follow '#i'
DeclPush(sc, q) == IF DeclBinding(q) = None THEN sc ELSE Append(sc, DeclBinding(q)[1])

\* The pops after a '#lemme' token: 'see' and the identifier
LemmePops(q) ==
    IF Len(q) < 1 THEN 0
    ELSE IF to_lowercase(Nth(q, 1)) = "see" /\ Len(q) >= 2 THEN 2
    ELSE 1

\* the identifier was popped: scope_stack.last().unwrap() and value.unwrap() run
LemmeEmits(q) == Len(q) >= 2 /\ to_lowercase(Nth(q, 1)) = "see"

\* the binding a variable use resolves to: the last one of the list
ResolveUse(sc) == IF sc = <<>> THEN None ELSE Some(Last(sc))

\* either unwrap fails
UsePanics(sc) == ResolveUse(sc) = None \/ ResolveUse(sc)[1].value = None

UseValue(sc) == ResolveUse(sc)[1].value[1]

AudioText(address_token) ==
    "\n<audio controls>\n<source src=\"" \o address_token \o "\" type=\"audio/mpeg\">"

VideoText(address_token) == "\n<iframe src = " \o address_token \o ">\n"

\* one step of to_html that does not fail
Gen(h, q, sc, pc) ==
    /\ html_string' = h
    /\ token_strings' = q
    /\ html_scope_stack' = sc
    /\ html_pc' = pc
    /\ phase' = IF pc = "done" THEN "generated" ELSE phase
    /\ error' = error

\* a panic inside to_html
Panic ==
    /\ phase' = "aborted"
    /\ error' = PanicError
    /\ UNCHANGED <<html_string, token_strings, html_scope_stack, html_pc>>

\* '#lemme' was popped and q is left; next is the loop to continue with
UseStep(q, next) ==
    IF LemmeEmits(q)
    THEN IF UsePanics(html_scope_stack)
         THEN Panic
         ELSE Gen(html_string \o " " \o UseValue(html_scope_stack), Drop(q, 2),
                  html_scope_stack, next)
    ELSE Gen(html_string, Drop(q, LemmePops(q)), html_scope_stack, next)

\* '#gimmeh' was popped and q is left; loop is the loop to continue with
ElemStep(q, loop, bold_loop, italics_loop) ==
    IF q = <<>> THEN Gen(html_string, q, html_scope_stack, loop)
    ELSE LET e  == to_lowercase(Nth(q, 1))
             q1 == Drop(q, 1)
         IN  IF e = "newline"
             THEN Gen(html_string \o "\n<br/>\n", q1, html_scope_stack, loop)
             ELSE IF e = "soundz" THEN
                  IF q1 = <<>> THEN Gen(html_string, q1, html_scope_stack, loop)
                  ELSE IF Len(q1) = 1
                       THEN Gen(html_string \o AudioText(Nth(q1, 1)), Drop(q1, 1),
                                html_scope_stack, loop)
                  ELSE Gen(html_string \o AudioText(Nth(q1, 1))
                              \o (IF to_lowercase(Nth(q1, 2)) = "#mkay"
                                  THEN "</audio>\n" ELSE ""),
                           Drop(q1, 2), html_scope_stack, loop)
             ELSE IF e = "vidz" THEN
                  IF q1 = <<>> THEN Gen(html_string, q1, html_scope_stack, loop)
                  ELSE Gen(html_string \o VideoText(Nth(q1, 1)),
                           Drop(q1, IF Len(q1) = 1 THEN 1 ELSE 2), html_scope_stack, loop)
             ELSE IF e = "bold"
                  THEN Gen(html_string \o " <b>", q1, html_scope_stack, bold_loop)
             ELSE IF e = "italics"
                  THEN Gen(html_string \o " <i>", q1, html_scope_stack, italics_loop)
             ELSE Gen(html_string, q1, html_scope_stack, loop)

Generating(pc) == phase = "generating" /\ html_pc = pc

\* to_html popping from compiler.language_tokens itself instead of from a copy
NoGenChange_consuming ==
    /\ language_tokens' = SubSeq(language_tokens, 1, Len(token_strings'))
    /\ UNCHANGED <<source, self_current_line, tokens, current_tok,
                   parser_current_line, stack, scope_vars, output_file, repeat_vars>>

NoGenChange ==
    UNCHANGED <<source, language_tokens, self_current_line, tokens, current_tok,
                parser_current_line, stack, scope_vars, output_file, repeat_vars>>

\* the outer loop: while let Some(token) = token_strings.pop()
to_html ==
    \/ /\ phase = "parsed"
       /\ phase' = "generating"
       /\ html_string' = " "
       /\ token_strings' = Lexemes(language_tokens)
       /\ html_scope_stack' = <<>>
       /\ html_pc' = "top"
       /\ error' = error
       /\ NoGenChange
    \/ /\ Generating("top")
       /\ IF token_strings = <<>>
          THEN Gen(html_string, token_strings, html_scope_stack, "done")
          ELSE LET token == Last(token_strings)
                   q     == Front(token_strings)
                   lt    == to_lowercase(token)
               IN  IF lt = "#hai"
                   THEN Gen(html_string \o "<!DOCTYPE html> \n<html>", q,
                            html_scope_stack, "top")
                   ELSE IF lt = "#i"
                        THEN Gen(html_string, Drop(q, DeclPops(q)),
                                 DeclPush(html_scope_stack, q), "top")
                   ELSE IF lt = "#kthxbye"
                        THEN Gen(html_string \o "\n</html>", q, html_scope_stack, "done")
                   ELSE IF lt = "#obtw"
                        THEN Gen(html_string \o "\n<!--", q, html_scope_stack, "comment")
                   ELSE IF lt = "#maek" THEN
                        IF q = <<>> THEN Gen(html_string, q, html_scope_stack, "top")
                        ELSE IF to_lowercase(Nth(q, 1)) = "head"
                             THEN Gen(html_string \o "\n<head>", Drop(q, 1),
                                      html_scope_stack, "head")
                        ELSE IF to_lowercase(Nth(q, 1)) = "paragraf"
                             THEN Gen(html_string \o "\n<p>", Drop(q, 1),
                                      html_scope_stack, "para")
                        ELSE Gen(html_string, Drop(q, 1), html_scope_stack, "top")
                   ELSE IF lt = "#lemme" THEN UseStep(q, "top")
                   ELSE IF lt = "#gimmeh" THEN ElemStep(q, "top", "top_bold", "top_italics")
                   ELSE IF ~starts_with(token, "#")
                        THEN Gen(html_string \o " " \o token, q, html_scope_stack, "top")
                   ELSE Gen(html_string, q, html_scope_stack, "top")
       /\ NoGenChange

\* the comment loop closing the comment with or without the line break, as it likes
to_html_comment_either ==
    /\ Generating("comment")
    /\ IF token_strings = <<>>
       THEN Gen(html_string, token_strings, html_scope_stack, "top")
       ELSE LET comment_token == Last(token_strings)
                q             == Front(token_strings)
            IN  IF to_lowercase(comment_token) = "#tldr"
                THEN \/ Gen(html_string \o " -->\n", q, html_scope_stack, "top")
                     \/ Gen(html_string \o " -->", q, html_scope_stack, "top")
                ELSE Gen(html_string \o " " \o comment_token, q, html_scope_stack, "comment")
    /\ NoGenChange

\* the loop after '#obtw'
to_html_comment ==
    /\ Generating("comment")
    /\ IF token_strings = <<>>
       THEN Gen(html_string, token_strings, html_scope_stack, "top")
       ELSE LET comment_token == Last(token_strings)
                q             == Front(token_strings)
            IN  IF to_lowercase(comment_token) = "#tldr"
                THEN Gen(html_string \o " -->\n", q, html_scope_stack, "top")
                ELSE Gen(html_string \o " " \o comment_token, q, html_scope_stack, "comment")
    /\ NoGenChange

\* the loop after '#maek head'
to_html_head ==
    /\ Generating("head")
    /\ IF token_strings = <<>>
       THEN Gen(html_string, token_strings, html_scope_stack, "top")
       ELSE LET head_token == Last(token_strings)
                q          == Front(token_strings)
            IN  IF to_lowercase(head_token) = "#oic"
                THEN Gen(html_string \o "</head>\n", q, html_scope_stack, "top")
                ELSE IF to_lowercase(head_token) = "#gimmeh" /\ q # <<>>
                     THEN IF to_lowercase(Nth(q, 1)) = "title"
                          THEN Gen(html_string \o "\n<title>", Drop(q, 1),
                                   html_scope_stack, "title")
                          ELSE Gen(html_string, Drop(q, 1), html_scope_stack, "head")
                ELSE Gen(html_string, q, html_scope_stack, "head")
    /\ NoGenChange

\* the title loop with the line break after the closing tag left out
to_html_title_no_break ==
    /\ Generating("title")
    /\ IF token_strings = <<>>
       THEN Gen(html_string, token_strings, html_scope_stack, "head")
       ELSE LET text_token == Last(token_strings)
                q          == Front(token_strings)
            IN  IF to_lowercase(text_token) = "#mkay"
                THEN Gen(html_string \o "</title>", q, html_scope_stack, "head")
                ELSE Gen(html_string \o " " \o text_token, q, html_scope_stack, "title")
    /\ NoGenChange

\* the loop after '#gimmeh title'
to_html_title ==
    /\ Generating("title")
    /\ IF token_strings = <<>>
       THEN Gen(html_string, token_strings, html_scope_stack, "head")
       ELSE LET text_token == Last(token_strings)
                q          == Front(token_strings)
            IN  IF to_lowercase(text_token) = "#mkay"
                THEN Gen(html_string \o "</title>\n", q, html_scope_stack, "head")
                ELSE Gen(html_string \o " " \o text_token, q, html_scope_stack, "title")
    /\ NoGenChange

\* a paragraph's '#oic' that removes the last binding whenever there is one
ParagraphPop_any(sc) == Front(sc)

\* the generator's binding list when a paragraph's '#oic' is reached
ParagraphPop(sc) == IF Len(sc) > 1 THEN Front(sc) ELSE sc

\* the loop after '#maek paragraf'
to_html_paragraph ==
    /\ Generating("para")
    /\ IF token_strings = <<>>
       THEN Gen(html_string, token_strings, html_scope_stack, "top")
       ELSE LET para_token == Last(token_strings)
                q          == Front(token_strings)
                lt         == to_lowercase(para_token)
            IN  IF lt = "#oic"
                THEN Gen(html_string \o "</p>\n", q, ParagraphPop(html_scope_stack), "top")
                ELSE IF lt = "#i"
                     THEN Gen(html_string, Drop(q, DeclPops(q)),
                              DeclPush(html_scope_stack, q), "para")
                ELSE IF lt = "#lemme" THEN UseStep(q, "para")
                ELSE IF lt = "#maek" THEN
                     IF q = <<>> THEN Gen(html_string, q, html_scope_stack, "para")
                     ELSE IF to_lowercase(Nth(q, 1)) = "list"
                          THEN Gen(html_string \o "\n<ul>", Drop(q, 1), html_scope_stack,
                                   "list")
                     ELSE Gen(html_string, Drop(q, 1), html_scope_stack, "para")
                ELSE IF lt = "#gimmeh"
                     THEN ElemStep(q, "para", "para_bold", "para_italics")
                ELSE IF ~starts_with(para_token, "#")
                     THEN Gen(html_string \o " " \o para_token, q, html_scope_stack, "para")
                ELSE Gen(html_string, q, html_scope_stack, "para")
    /\ NoGenChange

\* the loop after '#maek list' inside a paragraph
to_html_list ==
    /\ Generating("list")
    /\ IF token_strings = <<>>
       THEN Gen(html_string, token_strings, html_scope_stack, "para")
       ELSE LET list_elem_token == Last(token_strings)
                q               == Front(token_strings)
            IN  IF to_lowercase(list_elem_token) = "#oic"
                THEN Gen(html_string \o "\n</ul>\n", q, html_scope_stack, "para")
                ELSE IF to_lowercase(list_elem_token) = "#gimmeh" /\ q # <<>>
                     THEN IF to_lowercase(Nth(q, 1)) = "item"
                          THEN Gen(html_string \o "\n<li>", Drop(q, 1), html_scope_stack,
                                   "item")
                          ELSE Gen(html_string, Drop(q, 1), html_scope_stack, "list")
                ELSE Gen(html_string, q, html_scope_stack, "list")
    /\ NoGenChange

\* the loop after '#gimmeh item'
to_html_item ==
    /\ Generating("item")
    /\ IF token_strings = <<>>
       THEN Gen(html_string, token_strings, html_scope_stack, "list")
       ELSE LET item_content_token == Last(token_strings)
                q                  == Front(token_strings)
            IN  IF to_lowercase(item_content_token) = "#lemme" /\ q # <<>>
                THEN UseStep(q, "item")
                ELSE IF to_lowercase(item_content_token) = "#mkay"
                     THEN Gen(html_string \o "</li>\n", q, html_scope_stack, "list")
                ELSE Gen(html_string \o " " \o item_content_token, q, html_scope_stack,
                         "item")
    /\ NoGenChange

\* the loops after '#gimmeh bold', in a paragraph and outside
to_html_bold ==
    /\ phase = "generating" /\ html_pc \in {"top_bold", "para_bold"}
    /\ LET outer == IF html_pc = "top_bold" THEN "top" ELSE "para" IN
       IF token_strings = <<>>
       THEN Gen(html_string, token_strings, html_scope_stack, outer)
       ELSE LET bold_token == Last(token_strings)
                q          == Front(token_strings)
            IN  IF to_lowercase(bold_token) = "#lemme" /\ q # <<>>
                THEN UseStep(q, html_pc)
                ELSE IF to_lowercase(bold_token) = "#mkay"
                     THEN Gen(html_string \o " </b>", q, html_scope_stack, outer)
                ELSE Gen(html_string \o " " \o bold_token, q, html_scope_stack, html_pc)
    /\ NoGenChange

\* the loops after '#gimmeh italics', in a paragraph and outside
to_html_italics ==
    /\ phase = "generating" /\ html_pc \in {"top_italics", "para_italics"}
    /\ LET outer == IF html_pc = "top_italics" THEN "top" ELSE "para" IN
       IF token_strings = <<>>
       THEN Gen(html_string, token_strings, html_scope_stack, outer)
       ELSE LET bold_token == Last(token_strings)
                q          == Front(token_strings)
            IN  IF to_lowercase(bold_token) = "#mkay"
                THEN Gen(html_string \o " </i>", q, html_scope_stack, outer)
                ELSE Gen(html_string \o " " \o bold_token, q, html_scope_stack, html_pc)
    /\ NoGenChange

\* main: std::fs::write(&html_filename, html_string)
write_file ==
    /\ phase = "generated"
    /\ phase' = "written"
    /\ output_file' = Some(html_string)
    /\ UNCHANGED <<source, language_tokens, self_current_line, tokens, current_tok,
                   parser_current_line, stack, error, scope_vars,
                   html_string, token_strings, html_scope_stack, html_pc, repeat_vars>>

---------------------------------------------------------------------------
(* The source texts explored.  A document is a sequence of lexemes; its    *)
(* text separates them by one space, with a newline in place of the space  *)
(* after the b-th lexeme when b > 0.                                       *)

\* the largest number of free phrases in a document
MaxMid == 2
\* the last place a line break is put at
MaxBreak == 2

RECURSIVE TextFrom(_, _, _)
TextFrom(doc, i, b) ==
    IF i > Len(doc) THEN ""
    ELSE doc[i] \o (IF i = b THEN "\n" ELSE IF i < Len(doc) THEN " " ELSE "")
                \o TextFrom(doc, i + 1, b)

Text(doc, b) == TextFrom(doc, 1, b)

RECURSIVE Flatten(_)
Flatten(phrases) ==
    IF phrases = <<>> THEN <<>> ELSE Head(phrases) \o Flatten(Tail(phrases))

\* the lexemes of n phrases of the set S, in every order
Mids(S, n) == {Flatten(q) : q \in [1..n -> S]}

HeadBlock == <<"#maek", "head", "#gimmeh", "title", "hi", "#mkay", "#oic">>

\* what may stand between '#hai' and the head
GlobalPhrases == {
    <<"haz">>,
    <<"haz", "#it", "iz", "a", "#mkay">>,
    <<"#obtw", "c", "#tldr">>,
    <<"#i", "haz", "x">>
}

\* what may stand inside the paragraph
ParagraphPhrases == {
    <<"haz">>,
    <<"haz", "#it", "iz", "b", "#mkay">>,
    <<"#lemme", "see", "haz", "#mkay">>,
    <<"#lemme", "see", "x", "#mkay">>,
    <<"#gimmeh", "bold", "a">>
}

\* what may stand between the paragraph and '#kthxbye'
BodyPhrases == {
    <<"haz">>,
    <<"#lemme", "see", "haz", "#mkay">>,
    <<"a">>,
    <<"#maek", "paragraf", "haz", "#oic">>
}

Document(g, p, b) ==
    <<"#hai">> \o g \o HeadBlock \o <<"#maek", "paragraf">> \o p \o <<"#oic">> \o b
        \o <<"#kthxbye">>

\* documents with at most MaxMid free phrases in all
Templates ==
    UNION { {Document(g, p, b) : g \in Mids(GlobalPhrases, n[1]),
                                 p \in Mids(ParagraphPhrases, n[2]),
                                 b \in Mids(BodyPhrases, n[3])} :
            n \in {m \in (0..MaxMid) \X (0..MaxMid) \X (0..MaxMid) :
                       m[1] + m[2] + m[3] <= MaxMid} }

\* first lexemes of a document
FirstTokens == {"#hai", "#HAI", "#Hai", "hai", "#kthxbye", "#maek", "haz", "hello", "$", "#x"}

\* documents that differ in how they open
Openings ==
    {<<>>} \cup {<<t>> : t \in FirstTokens}
           \cup {<<t>> \o HeadBlock \o <<"#kthxbye">> : t \in FirstTokens}
           \cup {<<t, "$">> : t \in FirstTokens}

\* documents written out in full
Examples == {
    <<"#hai", "#i", "haz", "x", "#it", "iz", "hello", "#mkay", "#maek", "paragraf",
      "#lemme", "see", "x", "#mkay", "#oic", "#kthxbye">>,
    <<"#hai", "#maek", "paragraf", "#lemme", "see", "x", "#mkay", "#oic", "#kthxbye">>,
    <<"#hai", "haz", "#it", "iz", "a", "#mkay">> \o HeadBlock \o <<"#maek", "paragraf",
      "haz", "#it", "iz", "b", "#mkay", "#lemme", "see", "haz", "#mkay", "#oic",
      "#kthxbye">>,
    <<"#hai">> \o HeadBlock,
    <<"#hai">> \o HeadBlock \o <<"#kthxbye", "a">>,
    <<"#hai", "#maek", "head", "#gimmeh", "title", "#oic", "#kthxbye">>,
    <<"#hai">> \o HeadBlock \o <<"#obtw", "c", "d", "#tldr", "#gimmeh", "newline",
      "#gimmeh", "bold", "bold", "a", "#mkay", "#gimmeh", "italics", "italics", "a",
      "#mkay", "#gimmeh", "vidz", "u", "#mkay", "#kthxbye">>,
    <<"#hai">> \o HeadBlock \o <<"#gimmeh", "soundz", "u", "#mkay", "#kthxbye">>,
    <<"#hai">> \o HeadBlock \o <<"#maek", "list", "#gimmeh", "item", "a", "#mkay", "#oic",
      "#kthxbye">>,
    <<"#hai">> \o HeadBlock \o <<"#maek", "paragraf", "#gimmeh", "italics", "a", "#mkay",
      "#gimmeh", "newline", "#gimmeh", "vidz", "u", "#mkay", "#gimmeh", "soundz", "u",
      "#oic", "#kthxbye">>,
    <<"#hai">> \o HeadBlock \o <<"#maek", "paragraf", "#maek", "#maek", "list",
      "#gimmeh", "item", "#gimmeh", "bold", "b", "#mkay", "#oic", "#kthxbye">>,
    <<"#hai">> \o HeadBlock \o <<"#maek", "paragraf", "a", "#maek", "list", "#gimmeh",
      "item", "b", "#mkay", "#gimmeh", "bold", "x", "#oic", "#oic", "#kthxbye">>,
    <<"#hai">> \o HeadBlock \o <<"#maek", "paragraf", "a", "#i", "haz", "x", "#it", "iz",
      "v", "#mkay", "#gimmeh", "italics", "#lemme", "see", "haz", "#mkay", "#mkay",
      "#oic", "#kthxbye">>,
    <<"#hai">> \o HeadBlock \o <<"#maek", "paragraf", "a", "#i", "haz", "x", "#it", "iz",
      "v", "#mkay", "#oic", "#maek", "paragraf", "b", "#i", "haz", "y", "#it", "iz", "w",
      "#mkay", "#lemme", "see", "haz", "#mkay", "#gimmeh", "bold", "#lemme", "see", "haz",
      "#mkay", "#mkay", "#oic", "#kthxbye">>
}

\* documents cut off after any of their lexemes
Prefixes(doc) == {SubSeq(doc, 1, k) : k \in 1..(Len(doc) - 1)}

Truncated ==
    Prefixes(<<"#hai">> \o HeadBlock \o <<"#maek", "paragraf", "haz", "#it", "iz", "b",
               "#mkay", "#lemme", "see", "haz", "#mkay", "#gimmeh", "italics", "a",
               "#mkay", "#oic", "#kthxbye">>)
    \cup Prefixes(<<"#hai", "#obtw", "c", "#tldr">> \o HeadBlock \o <<"#gimmeh", "bold",
                    "a", "#mkay", "#gimmeh", "soundz", "u", "#mkay", "#kthxbye">>)

\* documents with the character U+0000 in them
NulDocs == {
    <<"#hai">> \o HeadBlock \o <<"#kthxbye", Nul, "$">>,
    <<"#hai", "a" \o Nul \o "b", "c">>
}

\* lexemes of every kind, each as the second token of a document
LexemeSamples == {
    "#HAI", "#KthxBye", "#obtw", "#tldr", "#Maek", "#oic", "#gimmeh", "#mkay", "#I", "#it",
    "#lemme", "#haz", "#head", "#", "#hai!", "Head", "TITLE", "paragraf", "vidz", "haz",
    "See", "abc", "a1", "42", "a,b.c':d?e!f_g/h", "50%", "a%b/c", "\"hi\"", "a\"b", "a;b",
    "a-b", "$", "(a)", "a#b", "%#"
}

LexemeDocs == {<<"#hai", x>> : x \in LexemeSamples}

\* documents without a head block
Headless == {
    <<"#hai", "#maek", "paragraf", "hi", "#oic", "#kthxbye">>,
    <<"#hai", "hi", "#kthxbye">>,
    <<"#hai", "#kthxbye">>
}

\* tag tokens that belong to no construct of a paragraph
StrayTags == {"#hai", "#kthxbye", "#tldr", "#it", "#mkay", "#obtw"}

\* the title document with one paragraph whose content is given
WithParagraph(content) ==
    <<"#hai">> \o HeadBlock \o <<"#maek", "paragraf">> \o content \o <<"#oic", "#kthxbye">>

\* paragraphs with a stray tag, first or after a text
StrayDocs ==
    {WithParagraph(<<t>>) : t \in StrayTags} \cup {WithParagraph(<<"a", t>>) : t \in StrayTags}

\* documents with a construct that lacks a part
Malformed == {
    <<"#hai", "#maek", "head", "#oic", "#kthxbye">>,
    <<"#hai">> \o HeadBlock \o <<"#gimmeh", "vidz", "#mkay", "#kthxbye">>,
    <<"#hai">> \o HeadBlock \o <<"#gimmeh", "vidz", "u", "#kthxbye">>,
    <<"#hai">> \o HeadBlock \o <<"#gimmeh", "soundz", "#mkay", "#kthxbye">>,
    <<"#hai">> \o HeadBlock \o <<"#gimmeh", "vidz", "u", "#mkay", "#kthxbye">>,
    <<"#hai">> \o HeadBlock \o <<"#gimmeh", "vidz", "a%b/c:d", "#mkay", "a", "#kthxbye">>
}

ListBlock == <<"#maek", "list", "#gimmeh", "item", "a", "#mkay", "#oic">>

\* the title document with the given constructs as its body
WithBody(content) == <<"#hai">> \o HeadBlock \o content \o <<"#kthxbye">>

\* documents with a list, in the body and in a paragraph
ListDocs == {
    WithBody(ListBlock),
    WithParagraph(ListBlock),
    WithBody(<<"#maek", "list", "#oic">>),
    WithParagraph(<<"#maek", "list", "#oic">>),
    WithParagraph(<<"#maek", "list", "#gimmeh", "item", "a", "#mkay", "#gimmeh", "item", "b",
                    "#mkay", "#oic", "c">>)
}

\* a styled-inline element with the given content
Styled(k, content) == <<"#gimmeh", k>> \o content \o <<"#mkay">>

\* documents with a bold or italics element, in the body and in a paragraph, well
\* formed, closed by another tag, and followed by a stray tag
StyledDocs ==
    UNION { {WithBody(Styled(k, <<"a">>)),
             WithBody(Styled(k, <<"a", "b">>)),
             WithParagraph(Styled(k, <<"a">>)),
             WithParagraph(Styled(k, <<"a">>) \o <<"b">>),
             WithParagraph(<<"#gimmeh", k, "a", "#tldr">>),
             WithParagraph(Styled(k, <<"a">>) \o <<"#hai">>)} : k \in {"bold", "italics"} }

\* a text and the lexemes to_html takes for a declaration of id with value v
Declares(id, v) == <<"a", "#i", "haz", id, "#it", "iz", v, "#mkay">>

\* a bold use whose unchecked end hides the '#i haz' of the next declaration from parse
BoldUse == <<"#gimmeh", "bold", "#lemme", "see", "haz", "#mkay">>

ThreeBindings ==
    WithBody(<<"#maek", "paragraf">> \o Declares("x", "v") \o BoldUse
                 \o Tail(Declares("y", "w")) \o BoldUse \o Tail(Declares("z", "u"))
                 \o <<"#oic", "#maek", "paragraf", "b", "#oic">>)

\* documents on which to_html binds several variables
BindingDocs == {
    ThreeBindings,
    WithBody(<<"#maek", "paragraf">> \o Declares("x", "v") \o <<"#oic", "#maek", "paragraf",
               "b", "#lemme", "see", "haz", "#mkay", "#oic">>)
}

Docs ==
    Templates \cup Openings \cup Examples \cup Truncated \cup NulDocs \cup LexemeDocs
        \cup Headless \cup StrayDocs \cup Malformed \cup ListDocs \cup StyledDocs
        \cup BindingDocs

\* texts with other spacing: tabs, carriage returns, blank lines, blanks at the ends
RawSources == {
    " ",
    " \r\n\t",
    "  #hai\t\n\n#kthxbye  ",
    "\n#hai \r\n #maek\thead\f#gimmeh  title\n\n\nhi #mkay\n#oic #kthxbye\n",
    "#hai\n\n$"
}

Sources == {Text(doc, b) : doc \in Docs, b \in 0..MaxBreak} \cup RawSources

---------------------------------------------------------------------------
(* The run of main: LolcodeCompiler::new, then compile, parse, to_html and *)
(* the write of the output file.                                           *)

Init ==
    /\ source \in Sources
    /\ tokens = <<>>
    /\ language_tokens = <<>>
    /\ current_tok = ""
    /\ scope_stack = <<EmptyScope>>
    /\ parser_current_line = 1
    /\ self_current_line = 1
    /\ stack = <<>>
    /\ phase = "main"
    /\ error = NoError
    /\ declared_at = <<EmptyScope>>
    /\ lookup_result = [name |-> "", found |-> None]
    /\ html_string = ""
    /\ token_strings = <<>>
    /\ html_scope_stack = <<>>
    /\ html_pc = "idle"
    /\ output_file = None
    /\ runs = 1
    /\ calls = 1
    /\ first_run = None
    /\ first_html = None

Next ==
    \/ compile
    \/ parse
    \/ lolcode
    \/ parse_lolcode
    \/ parse_comments
    \/ parse_head
    \/ parse_title
    \/ parse_comment
    \/ parse_body
    \/ parse_inner_body
    \/ parse_paragraph
    \/ parse_inner_paragraph
    \/ parse_list
    \/ parse_list_items
    \/ parse_inner_text
    \/ parse_text
    \/ parse_item
    \/ parse_inner_list
    \/ parse_audio
    \/ parse_video
    \/ parse_newline
    \/ parse_bold
    \/ parse_italics
    \/ parse_variable_define
    \/ parse_variable_use
    \/ to_html
    \/ to_html_comment
    \/ to_html_head
    \/ to_html_title
    \/ to_html_paragraph
    \/ to_html_list
    \/ to_html_item
    \/ to_html_bold
    \/ to_html_italics
    \/ write_file

Spec == Init /\ [][Next]_vars

---------------------------------------------------------------------------
(* The program run twice on the same source text, and to_html called twice *)
(* on the same compiler.                                                   *)

\* the documents the repetitions are explored on
RepeatDocs == Openings \cup Examples \cup Truncated

InitRepeat == Init /\ source \in {Text(doc, b) : doc \in RepeatDocs, b \in 0..MaxBreak}

\* the process has ended
Ended == phase \in {"exited", "aborted", "written"}

\* how a run ended
Outcome == [phase |-> phase, error |-> error, html |-> html_string, file |-> output_file]

\* main is started again on the same file: LolcodeCompiler::new, nothing is kept
rerun ==
    /\ runs = 1
    /\ Ended
    /\ runs' = 2
    /\ first_run' = Some(Outcome)
    /\ calls' = 1
    /\ first_html' = None
    /\ tokens' = <<>>
    /\ language_tokens' = <<>>
    /\ current_tok' = ""
    /\ scope_stack' = <<EmptyScope>>
    /\ parser_current_line' = 1
    /\ self_current_line' = 1
    /\ stack' = <<>>
    /\ phase' = "main"
    /\ error' = NoError
    /\ declared_at' = <<EmptyScope>>
    /\ lookup_result' = [name |-> "", found |-> None]
    /\ html_string' = ""
    /\ token_strings' = <<>>
    /\ html_scope_stack' = <<>>
    /\ html_pc' = "idle"
    /\ output_file' = None
    /\ UNCHANGED source

\* to_html is called once more on the compiler that has returned a text, after the
\* caller has left the scope stack alone, pushed a frame or declared a variable
to_html_again ==
    /\ phase = "generated"
    /\ calls = 1
    /\ calls' = 2
    /\ first_html' = Some(html_string)
    /\ \E ss \in {scope_stack, push_scope(scope_stack),
                   declare_insert(scope_stack, "zz", Some("q"), 1)} : scope_stack' = ss
    /\ phase' = "generating"
    /\ html_string' = " "
    /\ token_strings' = Lexemes(language_tokens)
    /\ html_scope_stack' = <<>>
    /\ html_pc' = "top"
    /\ UNCHANGED <<source, language_tokens, self_current_line, tokens, current_tok,
                   parser_current_line, stack, error, declared_at, lookup_result,
                   output_file, runs, first_run>>

NextRepeat == Next \/ rerun \/ to_html_again

SpecRepeat == InitRepeat /\ [][NextRepeat]_vars

\* The thread that runs the parse never stops of itself: while the parse is under way
\* a step is taken whenever one can be.
SpecFair == Spec /\ WF_vars(phase = "parsing" /\ Next)

---------------------------------------------------------------------------
(* What the properties below are stated with.                              *)

Contains(s, sub) ==
    /\ Len(sub) <= Len(s)
    /\ \E i \in 1..(Len(s) + 1 - Len(sub)) : SubSeq(s, i, i + Len(sub) - 1) = sub

ends_with(s, sub) == Len(sub) <= Len(s) /\ SubSeq(s, Len(s) + 1 - Len(sub), Len(s)) = sub

\* the source is the document doc, with or without a line break
IsDoc(doc) == source \in {Text(doc, b) : b \in 0..MaxBreak}

\* the lexemes of the document in source order (known once compile has run)
SourceLexemes == Reverse(Lexemes(language_tokens))

\* parse returned: main went on to to_html
ParseAccepted ==
    \/ phase \in {"parsed", "generating", "generated", "written"}
    \/ phase = "aborted" /\ error.kind = "panic"

\* the binding of name in the innermost frame that binds it, None when no frame does
InnermostBinding(ss, name) ==
    LET binds == {i \in 1..Len(ss) : name \in DOMAIN ss[i]} IN
    IF binds = {} THEN None
    ELSE Some(ss[CHOOSE i \in binds : \A j \in binds : j <= i][name])

\* paragraphs entered (their frame pushed) and not yet left
OpenParagraphs ==
    Cardinality({i \in 1..Len(stack) :
                    stack[i].fn = "parse_paragraph" /\ stack[i].pc # "start"})

\* a paragraph keyword lies before the current token
ParagraphBefore ==
    \E i \in (Len(tokens) + 2)..Len(language_tokens) :
        to_lowercase(language_tokens[i][1]) \in paragraph_element

TitleOnly == <<"#hai">> \o HeadBlock \o <<"#kthxbye">>

DeclareThenUse ==
    <<"#hai", "#i", "haz", "x", "#it", "iz", "hello", "#mkay", "#maek", "paragraf",
      "#lemme", "see", "x", "#mkay", "#oic", "#kthxbye">>

UseOnly == <<"#hai", "#maek", "paragraf", "#lemme", "see", "x", "#mkay", "#oic", "#kthxbye">>

\* the document has no declaration keyword at all, and a complete variable use
UseWithoutAnyDeclaration ==
    LET L == SourceLexemes IN
    /\ \A i \in 1..Len(L) : ~is_variable_start(L[i])
    /\ \E i \in 1..Len(L) :
          /\ i + 3 <= Len(L)
          /\ to_lowercase(L[i]) = "#lemme"
          /\ to_lowercase(L[i + 1]) = "see"
          /\ is_variable_identifier(L[i + 2])
          /\ is_mkay_end(L[i + 3])

FirstLexeme == Last(language_tokens)[1]
FirstLine   == Last(language_tokens)[2]

---------------------------------------------------------------------------
(* The properties.                                                         *)

\* C1 (as amended): on the document '#hai #maek head #gimmeh title hi #mkay #oic
\* #kthxbye' no error of any kind is reported, and the text to_html returns holds
\* '<head>', a line break, '<title> hi</title>', a line break, '</head>' and ends
\* with '</html>'.
C1_TitleDocument ==
    IsDoc(TitleOnly) =>
        /\ error = NoError
        /\ phase \notin {"exited", "aborted"}
        /\ phase \in {"generated", "written"} =>
              /\ Contains(html_string, "<head>\n<title> hi</title>\n</head>")
              /\ ends_with(html_string, "</html>")

C1_Witness ==
    /\ IsDoc(TitleOnly)
    /\ phase = "written"
    /\ output_file = Some(html_string)
    /\ Contains(html_string, "<head>\n<title> hi</title>\n</head>")
    /\ ends_with(html_string, "</html>")

\* C1 as first stated: the returned text holds '<head><title> hi</title></head>'
\* with nothing between the tags.
C1_AsStated ==
    IsDoc(TitleOnly) =>
        /\ error = NoError
        /\ phase \in {"generated", "written"} =>
              /\ Contains(html_string, "<head><title> hi</title></head>")
              /\ ends_with(html_string, "</html>")

\* C2: on the document '#hai #i haz x #it iz hello #mkay #maek paragraf #lemme see x
\* #mkay #oic #kthxbye' no error is reported, and the text to_html returns holds the
\* value 'hello'.
C2_DeclareThenUse ==
    IsDoc(DeclareThenUse) =>
        /\ error = NoError
        /\ phase \in {"generated", "written"} => Contains(html_string, "hello")

\* C3: on the document '#hai #maek paragraf #lemme see x #mkay #oic #kthxbye' the
\* parse reports neither a lexical nor a syntax error (it ends in the semantic error
\* for x), and to_html is never run.
C3_UseOfUndeclared ==
    IsDoc(UseOnly) =>
        /\ error.kind \notin {"lexical", "syntax"}
        /\ phase = "exited" =>
              error.kind = "semantic" /\ error.msg = "is used before being defined"
        /\ ~ParseAccepted

\* C4: a document with a variable use '#lemme see <id> #mkay' whose <id> is bound in
\* no frame (here: the document declares nothing at all) is never accepted by parse.
C4_UnboundUseRejected == UseWithoutAnyDeclaration => ~ParseAccepted

\* C5: lookup_variable returns the binding of the innermost frame that binds the
\* name: a use passes the scope check exactly when some frame binds the name, and
\* then the binding it got is that of the innermost such frame.
C5_LookupInnermostFirst ==
    /\ (Running("parse_variable_use") /\ At("mkay")) =>
          /\ lookup_result.name = Top.name
          /\ lookup_result.found # None
          /\ lookup_result.found = InnermostBinding(scope_stack, Top.name)
    /\ (phase = "exited" /\ error.msg = "is used before being defined") =>
          /\ InnermostBinding(scope_stack, error.tok) = None
          /\ lookup_result = [name |-> error.tok, found |-> None]

C5_Witness ==
    /\ Running("parse_variable_use") /\ At("mkay")
    /\ Len(scope_stack) = 2
    /\ Top.name \in DOMAIN scope_stack[1]
    /\ Top.name \in DOMAIN scope_stack[2]
    /\ scope_stack[1][Top.name].value = Some("a")
    /\ lookup_result.found = Some(scope_stack[2][Top.name])
    /\ lookup_result.found[1].value = Some("b")

\* C6: when the parse ends on the declaration of a name already bound in the
\* innermost frame, the error is the 'already defined' one and the line it cites is
\* the source line of the identifier of the earlier declaration.
C6_RedeclarationCitesLine ==
    (phase = "exited" /\ error.kind = "semantic" /\ error.msg = "is already defined") =>
        /\ error.tok \in DOMAIN Last(scope_stack)
        /\ error.cited = Last(declared_at)[error.tok]

\* C7: a declaration collides only with a binding of the innermost frame: when the
\* name is bound there the parse ends in the 'already defined' error and no frame
\* changes; otherwise the parse goes on, the innermost frame gains the binding and
\* keeps its other bindings, and every outer frame stays as it was.
C7_DeclareInInnermostOnly ==
    [][ (Running("parse_variable_define") /\ At("declare")) =>
            IF Top.name \in DOMAIN Last(scope_stack)
            THEN /\ phase' = "exited"
                 /\ error'.msg = "is already defined"
                 /\ scope_stack' = scope_stack
            ELSE /\ phase' = "parsing"
                 /\ Len(scope_stack') = Len(scope_stack)
                 /\ \A i \in 1..(Len(scope_stack) - 1) : scope_stack'[i] = scope_stack[i]
                 /\ DOMAIN Last(scope_stack') = DOMAIN Last(scope_stack) \cup {Top.name}
                 /\ Last(scope_stack')[Top.name].value = Top.val
                 /\ \A n \in DOMAIN Last(scope_stack) :
                       Last(scope_stack')[n] = Last(scope_stack)[n] ]_vars

C7_Witness ==
    /\ phase = "parsing"
    /\ Len(scope_stack) = 2
    /\ "haz" \in DOMAIN scope_stack[1]
    /\ "haz" \in DOMAIN scope_stack[2]
    /\ scope_stack[1]["haz"].value = Some("a")
    /\ scope_stack[2]["haz"].value = Some("b")

\* C8: the depth of the scope stack is 1 plus the number of open paragraphs, it is 1
\* when parse has succeeded, and a declaration in the outer scope after a paragraph
\* has closed is not where the parse breaks down.
C8_ParagraphFrames ==
    /\ Len(scope_stack) = 1 + OpenParagraphs
    /\ ParseAccepted => Len(scope_stack) = 1
    /\ ~(/\ phase = "aborted"
         /\ error.kind = "overflow"
         /\ is_variable_start(current_tok)
         /\ Len(scope_stack) = 1
         /\ ParagraphBefore)

\* C9: the scope stack always holds at least one frame, pop_scope leaves a stack of
\* depth 1 as it is, and the bottom frame is never removed or replaced: it keeps
\* every binding it has.
C9_GlobalFrameStays ==
    /\ [](/\ Len(scope_stack) >= 1
          /\ Len(pop_scope(scope_stack)) >= 1
          /\ Len(scope_stack) = 1 => pop_scope(scope_stack) = scope_stack)
    /\ [][ /\ Len(scope_stack') >= 1
           /\ \A n \in DOMAIN scope_stack[1] :
                 n \in DOMAIN scope_stack'[1] /\ scope_stack'[1][n] = scope_stack[1][n] ]_vars

C9_Witness ==
    /\ phase = "parsed"
    /\ Len(scope_stack) = 1
    /\ "haz" \in DOMAIN scope_stack[1]
    /\ \E i \in 1..Len(language_tokens) :
          to_lowercase(language_tokens[i][1]) \in paragraph_element

\* C10 (as amended): when the first token is one the classifier accepts and is not
\* '#hai' in any letter case, nothing of the document is parsed: the run ends in the
\* syntax error that names '#hai' as the expected document start, reported for the
\* first token and its line.
C10_MissingHai ==
    (phase # "main" /\ language_tokens # <<>> /\ lookup(FirstLexeme)
        /\ to_lowercase(FirstLexeme) # "#hai") =>
        /\ phase \in {"compiled", "parsing", "exited"}
        /\ phase = "parsing" => stack = <<Frame("parse", "tail"), Frame("lolcode", "hai")>>
        /\ phase = "exited" =>
              error = SyntaxError(FirstLine, "Expected document start '#hai'", FirstLexeme)

C10_Witness ==
    /\ phase = "exited"
    /\ language_tokens # <<>>
    /\ FirstLexeme = "hai"
    /\ Len(language_tokens) > 1
    /\ error = SyntaxError(FirstLine, "Expected document start '#hai'", "hai")

\* C10 as first stated: whatever the first token is, if it is not '#hai' the run
\* ends in the syntax error that names '#hai'.
C10_AsStated ==
    (phase = "exited" /\ language_tokens # <<>> /\ to_lowercase(FirstLexeme) # "#hai") =>
        error.kind = "syntax" /\ error.msg = "Expected document start '#hai'"

\* the parse is over: main has left Compiler::parse, or the process has ended in it
ParseEnded == phase \notin {"main", "compiled", "parsing"}

\* no lexeme of the source is the document end
NoDocumentEnd == \A i \in 1..Len(language_tokens) : ~is_document_end(language_tokens[i][1])

\* C11: when the first token is '#hai' and no token of the input is '#kthxbye' (and
\* every lexeme is one the classifier accepts), the parse ends in the syntax error
\* that names '#kthxbye' as the expected document end.
C11_MissingKthxbye ==
    (ParseEnded /\ language_tokens # <<>> /\ to_lowercase(FirstLexeme) = "#hai"
        /\ NoDocumentEnd /\ \A i \in 1..Len(language_tokens) : lookup(language_tokens[i][1])) =>
        /\ phase = "exited"
        /\ error.kind = "syntax"
        /\ error.msg = "Expected document end '#kthxbye'"

\* C12: a document with a lexeme that lookup rejects is never accepted by parse; and
\* whenever a token is popped (by start in compile, by next_token afterwards) whose
\* lexeme lookup rejects, the run ends at once in a lexical error that reports this
\* lexeme and the line the tokenizer stored with it.
C12_RejectedLexeme ==
    /\ [](ParseAccepted => \A i \in 1..Len(language_tokens) : lookup(language_tokens[i][1]))
    /\ [][ /\ (phase = "main" /\ language_tokens' # <<>>
                  /\ ~lookup(Last(language_tokens')[1])) =>
                 /\ phase' = "exited"
                 /\ error'.kind = "lexical"
                 /\ error'.tok = Last(language_tokens')[1]
                 /\ error'.line = Last(language_tokens')[2]
           /\ (phase = "parsing" /\ tokens # <<>> /\ tokens' = Front(tokens)
                  /\ ~lookup(Last(tokens)[1])) =>
                 /\ phase' = "exited"
                 /\ error'.kind = "lexical"
                 /\ error'.tok = Last(tokens)[1]
                 /\ error'.line = Last(tokens)[2]
                 /\ language_tokens[Len(tokens)] = <<error'.tok, error'.line>> ]_vars

C12_Witness ==
    /\ phase = "exited"
    /\ error.kind = "lexical"
    /\ error.tok = "$"
    /\ error.line = 2
    /\ Len(language_tokens) = 2
    /\ tokens = <<>>
    /\ language_tokens[1] = <<"$", 2>>

\* C13: when lolcode has returned at the '#kthxbye' that closes the document and a
\* token is left, parse ends in the syntax error 'Additional tokens found after the
\* document'; parse returns normally only with the token list empty.
C13_AdditionalTokens ==
    /\ []((Running("parse") /\ At("tail")) => is_document_end(current_tok))
    /\ [](ParseAccepted => tokens = <<>> /\ is_document_end(current_tok))
    /\ [][ (Running("parse") /\ At("tail")) =>
              IF tokens # <<>>
              THEN /\ phase' = "exited"
                   /\ error'.kind = "syntax"
                   /\ error'.msg = "Additional tokens found after the document"
              ELSE phase' = "parsed" /\ error' = NoError ]_vars

C13_Witness ==
    /\ phase = "exited"
    /\ error.kind = "syntax"
    /\ error.msg = "Additional tokens found after the document"
    /\ tokens # <<>>
    /\ is_document_end(current_tok)


\* The constructs of the claim on the end of input: the routine that parses each,
\* the places of the routine at which the construct has been opened, and its name
Constructs == {
    [fn |-> "parse_head",            open |-> {"title", "oic"},    name |-> "head"],
    [fn |-> "parse_title",           open |-> {"loop"},            name |-> "title"],
    [fn |-> "parse_comment",         open |-> {"text", "tldr"},    name |-> "comment"],
    [fn |-> "parse_paragraph",       open |-> {"loop"},            name |-> "paragraph"],
    [fn |-> "parse_list",            open |-> {"items", "oic"},    name |-> "list"],
    [fn |-> "parse_item",            open |-> {"inner", "mkay"},   name |-> "item"],
    [fn |-> "parse_bold",            open |-> {"content", "mkay"}, name |-> "bold"],
    [fn |-> "parse_italics",         open |-> {"content", "mkay"}, name |-> "italics"],
    [fn |-> "parse_audio",           open |-> {"address", "mkay"}, name |-> "audio"],
    [fn |-> "parse_video",           open |-> {"address", "mkay"}, name |-> "video"],
    [fn |-> "parse_variable_define", open |-> {"ident", "mid", "iz", "value", "mkay"},
                                     name |-> "variable declaration"],
    [fn |-> "parse_variable_use",    open |-> {"see", "ident", "mkay"},
                                     name |-> "variable use"]
}

\* the frames of the call stack whose construct is open
OpenFrames ==
    {i \in 1..Len(stack) :
        \E c \in Constructs : stack[i].fn = c.fn /\ stack[i].pc \in c.open}

\* the name of the innermost open construct
InnermostOpen ==
    LET i == CHOOSE k \in OpenFrames : \A j \in OpenFrames : j <= k
    IN  (CHOOSE c \in Constructs : c.fn = stack[i].fn).name

\* the run has ended with the input used up while a construct was open
RanOutInConstruct ==
    /\ phase \in {"exited", "aborted"}
    /\ tokens = <<>>
    /\ current_tok = ""
    /\ OpenFrames # {}

\* C14: when the tokens run out while a construct is open, the parse ends in a
\* syntax error that reports the unexpected end of input in that construct.
C14_EndOfInput ==
    RanOutInConstruct =>
        /\ phase = "exited"
        /\ error.kind = "syntax"
        /\ error.msg = "Unexpected end of input in " \o InnermostOpen


\* an error of the three designed categories has been reported
Reported == error.kind \in {"lexical", "syntax", "semantic"}

\* the steps main may take from each phase
PhaseOrder ==
    {<<"main", "compiled">>, <<"main", "exited">>, <<"compiled", "parsing">>,
     <<"parsing", "parsed">>, <<"parsing", "exited">>, <<"parsing", "aborted">>,
     <<"parsed", "generating">>, <<"generating", "generated">>,
     <<"generating", "aborted">>, <<"generated", "written">>}

\* C15: tokenize, parse and to_html run in this order: the tokens exist before the
\* parse starts, to_html starts only after compile and parse have finished without
\* error, and the file is written only after to_html; once a lexical, syntax or
\* semantic error is reported the run is over: no token is consumed afterwards, no
\* HTML text exists and no output file is written.
C15_PipelineOrder ==
    /\ [](phase \in {"compiled", "parsing"} =>
             language_tokens = tokenize(source) /\ html_pc = "idle")
    /\ [](html_pc # "idle" =>
             /\ language_tokens = tokenize(source)
             /\ tokens = <<>> /\ stack = <<>>
             /\ ~Reported)
    /\ [](output_file # None => phase = "written" /\ html_pc = "done" /\ error = NoError)
    /\ [](Reported =>
             /\ phase = "exited"
             /\ html_string = "" /\ token_strings = <<>> /\ html_pc = "idle"
             /\ output_file = None)
    /\ [][ /\ phase' # phase => <<phase, phase'>> \in PhaseOrder
           /\ Reported => UNCHANGED vars ]_vars

C15_Witness ==
    /\ phase = "exited"
    /\ error.kind = "semantic"
    /\ tokens # <<>>
    /\ html_string = ""
    /\ output_file = None


NonWhitespace(s, i) == ~is_whitespace(Ch(s, i))

RunStarts(s) == {i \in 1..Len(s) : NonWhitespace(s, i) /\ (i = 1 \/ ~NonWhitespace(s, i - 1))}

RunEnd(s, i) ==
    CHOOSE j \in i..Len(s) :
        /\ \A k \in i..j : NonWhitespace(s, k)
        /\ j = Len(s) \/ ~NonWhitespace(s, j + 1)

LineOf(s, i) == 1 + Cardinality({k \in 1..(i - 1) : Ch(s, k) = "\n"})

MaximalRuns(s) ==
    LET S == RunStarts(s)
        nth(k) == CHOOSE i \in S : Cardinality({j \in S : j < i}) = k - 1
    IN  [k \in 1..Cardinality(S) |->
            <<SubSeq(s, nth(k), RunEnd(s, nth(k))), LineOf(s, nth(k))>>]

\* compile has just returned or exited
JustCompiled == phase = "compiled" \/ (phase = "exited" /\ stack = <<>>)

\* C17: the tokens tokenize yields are exactly the maximal runs of non-whitespace
\* characters of the source text, in source order, each with the line number 1 + the
\* number of newline characters before it; next_token hands them out in that order
\* (what is left to pop is always the tokens not yet delivered).
C17_TokenizeRuns ==
    /\ JustCompiled => Reverse(language_tokens) = MaximalRuns(source)
    /\ phase # "main" => tokens = SubSeq(language_tokens, 1, Len(tokens))


\* The lexemes the classifier is said to accept: the tag keywords, the element
\* keywords and the three character classes
TagKeywords ==
    {"#hai", "#kthxbye", "#obtw", "#tldr", "#maek", "#oic", "#gimmeh", "#mkay", "#i", "#it",
     "#lemme"}

ElementKeywords ==
    {"head", "title", "paragraf", "bold", "italics", "list", "item", "newline", "soundz",
     "vidz"}

Letters == CharsOf(LowerAlpha) \cup CharsOf(UpperAlpha)
FreeTextChars == Letters \cup CharsOf(DigitChars) \cup CharsOf(",.'\":?!_/")
AddressChars == FreeTextChars \cup {"%"}

SaidAccepted(s) ==
    IF starts_with(s, "#")
    THEN to_lowercase(s) \in TagKeywords
    ELSE \/ to_lowercase(s) \in ElementKeywords
         \/ MatchesClass(s, FreeTextChars)
         \/ MatchesClass(s, AddressChars)
         \/ MatchesClass(s, Letters)

\* C18: lookup accepts a lexeme exactly when it is, case-insensitively, a tag keyword
\* beginning with '#', or does not begin with '#' and is an element keyword or is made
\* only of characters of the classes (letters, digits and , . ' " : ? ! _ / for free
\* text, the same and % for addresses, letters for identifiers); so every lexeme of the
\* input is classified that way, and a lexical error is reported only for a lexeme
\* outside these.
C18_LookupClasses ==
    /\ \A i \in 1..Len(language_tokens) :
          lookup(language_tokens[i][1]) <=> SaidAccepted(language_tokens[i][1])
    /\ error.kind = "lexical" => ~SaidAccepted(error.tok)


\* C19: the parser and the generator work on separate copies.  From compile on,
\* language_tokens is the whole output of tokenize, whatever next_token has popped
\* from lexer.tokens and to_html from its token_strings; a step of to_html changes
\* neither the parser's scope stack nor the two token lists, and what the scope stack
\* holds has no effect on it: a second call of to_html, made after the caller has
\* left the scope stack alone, pushed a frame or declared a variable, returns the
\* text the first call returned.
C19_SeparateCopies ==
    /\ [](phase # "main" => language_tokens = tokenize(source))
    /\ [][ /\ (phase = "parsing" /\ tokens' # tokens) =>
                 /\ tokens' = Front(tokens)
                 /\ language_tokens' = language_tokens
                 /\ token_strings' = token_strings
           /\ (phase \in {"parsed", "generating"} /\ runs' = runs) =>
                 /\ scope_stack' = scope_stack
                 /\ tokens' = tokens
                 /\ language_tokens' = language_tokens ]_vars
    /\ []((calls = 2 /\ phase \in {"generated", "written"}) =>
             first_html = Some(html_string))

C19_Witness ==
    /\ calls = 2
    /\ phase = "generated"
    /\ first_html = Some(html_string)
    /\ Len(scope_stack) = 2
    /\ Contains(html_string, "<p>")
    /\ language_tokens = tokenize(source)
    /\ token_strings # Lexemes(language_tokens)


\* the generator is about to pop '#lemme', 'see' and one more token
UseAhead ==
    /\ phase = "generating"
    /\ Len(token_strings) >= 3
    /\ to_lowercase(Nth(token_strings, 1)) = "#lemme"
    /\ to_lowercase(Nth(token_strings, 2)) = "see"

\* C20: in to_html every variable-use sequence '#lemme see <id>' (met while the
\* binding list holds a binding) emits the value of the binding appended last to the
\* generator's binding list, whatever <id> is: the three tokens are consumed, a blank
\* and that value are appended to the text, and the list is left as it is.
C20_UseEmitsLastBinding ==
    [][ (UseAhead /\ html_scope_stack # <<>>) =>
            /\ html_string' = html_string \o " " \o Last(html_scope_stack).value[1]
            /\ token_strings' = Drop(token_strings, 3)
            /\ html_scope_stack' = html_scope_stack ]_vars

HeadlessParagraph == <<"#hai", "#maek", "paragraf", "hi", "#oic", "#kthxbye">>

\* C21: the head block is optional: the document '#hai #maek paragraf hi #oic
\* #kthxbye', which has no '#maek head ... #oic' block and whose body is one paragraph
\* of plain text, is accepted by parse.
C21_HeadOptional == (ParseEnded /\ IsDoc(HeadlessParagraph)) => ParseAccepted

DeclarationBeforeHead == Document(<<"#i", "haz", "x">>, <<>>, <<>>)

\* C22: a declaration '#i haz <id>' where the grammar permits one (here: before the
\* head, in '#hai #i haz x #maek head #gimmeh title hi #mkay #oic #maek paragraf #oic
\* #kthxbye') is accepted, and adds to the innermost frame one binding named <id>
\* with no value.
C22_DeclarationAccepted ==
    (ParseEnded /\ IsDoc(DeclarationBeforeHead)) =>
        /\ ParseAccepted
        /\ contains_key(scope_stack[1], "x")
        /\ scope_stack[1]["x"].name = "x"
        /\ scope_stack[1]["x"].value = None

\* the run has ended in one of the ways the parse is said to end: main went on to
\* to_html, or the process exited with a report
Terminated ==
    \/ ParseAccepted
    \/ phase = "exited" /\ error.kind \in {"user", "lexical", "syntax", "semantic"}

\* C23: for every finite token sequence parse terminates: it either accepts the
\* document or ends in a lexical, syntax or semantic error (every loop iteration and
\* every recursive call consumes a token or ends the parse).
C23_ParseTerminates == (phase = "parsing") ~> Terminated

\* C24: for every input accepted by parse, to_html returns a text without failing
\* (at a variable use its binding list is non-empty and the last binding has a
\* value): once parse has returned, the run never ends in a panic.
C24_GenerationNeverFails == ParseAccepted => error # PanicError

\* C25: inside a paragraph only styled-inline, list, declaration, use and text
\* constructs are accepted: a paragraph that holds another tag token ('#hai',
\* '#kthxbye', '#tldr', '#it', a stray '#mkay'), alone or after a text, is rejected
\* with a syntax error.
C25_StrayTagRejected ==
    \A t \in {"#hai", "#kthxbye", "#tldr", "#it", "#mkay"} :
        (ParseEnded /\ (IsDoc(WithParagraph(<<t>>)) \/ IsDoc(WithParagraph(<<"a", t>>)))) =>
            phase = "exited" /\ error.kind = "syntax"

\* C26: every syntax error raised by a parse routine of the analyzer reports the
\* source line of the token found in place of the expected one: the line the
\* tokenizer stored with the current token.
C26_SyntaxErrorLine ==
    (phase = "exited" /\ error.kind = "syntax" /\ stack # <<>>
        /\ Top.fn \notin {"parse", "lolcode"} /\ current_tok # "") =>
        /\ error.tok = current_tok
        /\ error.line = CurrentLine

\* C27: a list block '#maek list (#gimmeh item <item-body> #mkay)* #oic', in the body
\* or inside a paragraph, is accepted by parse (and the parse goes on with the token
\* after the list's '#oic'): the title document with such a list as its body or in its
\* paragraph is accepted.
C27_ListAccepted == (ParseEnded /\ \E d \in ListDocs : IsDoc(d)) => ParseAccepted

\* C28: a media element '#gimmeh soundz <address> #mkay' or '#gimmeh vidz <address>
\* #mkay' in the body is accepted by parse when <address> matches the address class,
\* and rejected with a syntax error when the token after the keyword is not an
\* address or the closing '#mkay' is missing.
C28_MediaElement ==
    /\ (ParseEnded
            /\ \E k \in {"soundz", "vidz"} : IsDoc(WithBody(<<"#gimmeh", k, "u", "#mkay">>))) =>
          ParseAccepted
    /\ (ParseEnded
            /\ \E k \in {"soundz", "vidz"} : IsDoc(WithBody(<<"#gimmeh", k, "#mkay">>))) =>
          (phase = "exited" /\ error.kind = "syntax")
    /\ (ParseEnded /\ IsDoc(WithBody(<<"#gimmeh", "vidz", "u">>))) =>
          (phase = "exited" /\ error.kind = "syntax")

\* C29: a styled-inline element '#gimmeh bold ... #mkay' or '#gimmeh italics ...
\* #mkay' whose content is text is accepted by parse both in the body and inside a
\* paragraph, its closing '#mkay' and the token that follows it being checked: the
\* title document with such an element is accepted, with another tag in place of
\* '#mkay' or with a stray tag after the element it is rejected with a syntax error.
C29_StyledInline ==
    \A k \in {"bold", "italics"} :
        /\ (ParseEnded
               /\ (IsDoc(WithBody(Styled(k, <<"a">>)))
                      \/ IsDoc(WithParagraph(Styled(k, <<"a">>))))) => ParseAccepted
        /\ (ParseEnded
               /\ (IsDoc(WithParagraph(<<"#gimmeh", k, "a", "#tldr">>))
                      \/ IsDoc(WithParagraph(Styled(k, <<"a">>) \o <<"#hai">>)))) =>
              (phase = "exited" /\ error.kind = "syntax")

\* the token to_html pops next, in lower case ("" when none is left)
NextLexeme == IF token_strings = <<>> THEN "" ELSE to_lowercase(Nth(token_strings, 1))

\* the tokens to_html is about to pop are a complete declaration
\* '#i haz <id> #it iz <value> #mkay'
CompleteDeclarationNext ==
    /\ Len(token_strings) >= 7
    /\ NextLexeme = "#i"
    /\ to_lowercase(Nth(token_strings, 2)) = "haz"
    /\ to_lowercase(Nth(token_strings, 4)) = "#it"
    /\ to_lowercase(Nth(token_strings, 5)) = "iz"
    /\ to_lowercase(Nth(token_strings, 7)) = "#mkay"

\* C30: in to_html the binding list changes only by appending one binding (name,
\* value, line 0) when a complete declaration '#i haz <id> #it iz <value> #mkay' is
\* popped, and by removing its last binding when a paragraph's '#oic' is popped while
\* it holds more than one; a complete declaration always appends, such an '#oic'
\* always removes, and leaving a paragraph never empties the list.
C30_BindingListChanges ==
    [][/\ html_scope_stack' # html_scope_stack =>
             \/ /\ phase = "generating" /\ html_pc \in {"top", "para"}
                /\ CompleteDeclarationNext
                /\ html_scope_stack' =
                      Append(html_scope_stack,
                             [name |-> Nth(token_strings, 3),
                              value |-> Some(Nth(token_strings, 6)), line_defined |-> 0])
             \/ /\ phase = "generating" /\ html_pc = "para"
                /\ NextLexeme = "#oic"
                /\ Len(html_scope_stack) > 1
                /\ html_scope_stack' = Front(html_scope_stack)
       /\ (phase = "generating" /\ html_pc \in {"top", "para"} /\ CompleteDeclarationNext) =>
             Len(html_scope_stack') = Len(html_scope_stack) + 1
       /\ (phase = "generating" /\ html_pc = "para" /\ NextLexeme = "#oic") =>
             /\ Len(html_scope_stack) > 1 => html_scope_stack' = Front(html_scope_stack)
             /\ html_scope_stack # <<>> => html_scope_stack' # <<>>
      ]_vars

\* the second paragraph of the document, which declares nothing, has been left and its
\* '#oic' has removed y, declared in the first paragraph: of x, y, z only x is left
C30_Witness ==
    /\ phase = "generating" /\ html_pc = "top"
    /\ ends_with(html_string, " b</p>\n")
    /\ Len(html_scope_stack) = 1
    /\ html_scope_stack[1] = [name |-> "x", value |-> Some("v"), line_defined |-> 0]
    /\ IsDoc(ThreeBindings)

====
